---- MODULE Spec2Model ----
(***************************************************************************)
(* Playback queue and session reconciliation of the Plex music skill       *)
(* (src/lambda/lambda_function.py).                                        *)
(*                                                                         *)
(* One listener's record in the DynamoDB table is the variable store.      *)
(* Indexes are 0-based as in the Python code; the i-th track of a queue    *)
(* (0-based) is tracks[i + 1] here.  A track descriptor is represented by  *)
(* its rating key: title and artist are functions of the key.              *)
(*                                                                         *)
(* Spec      runs every handler as one atomic step and records in resp     *)
(*           what the invocation read, wrote and answered.                 *)
(* SpecConc  splits every handler at its store operations (get_item,       *)
(*           update_item, put_item) and interleaves NumInv invocations.    *)
(* SpecRecon interleaves, from any saved queue, the invocations that leave *)
(*           the track list alone, and records in last which invocation    *)
(*           was the latest to begin.                                      *)
(* SpecNav   runs Next and Previous between interleaved store writes.      *)
(* SpecRetry runs one call of plex_api_call_with_retry, attempt by         *)
(*           attempt, in the variable call.                                *)
(* SpecFilter runs one call of filter_tracks_by_rating in call.            *)
(* SpecSelect resolves one play request to its tracks_to_play in call.     *)
(* SpecPages runs one call of fetch_playlist_tracks_paginated in call.     *)
(* SpecFuzzy runs the calls of fuzzy_match_artist of one process in call.  *)
(* SpecSerialize runs one call of serialize_tracks_parallel in call.       *)
(* SpecDevice follows a device through the queue of one play request.     *)
(* SpecPlay runs one play request whose save may fail.                     *)
(***************************************************************************)
EXTENDS Integers, Sequences, FiniteSets, TLC

VARIABLES store, resp, inv, last, call

vars == <<store, resp, inv, last, call>>

(* ------------------------------ bounds --------------------------------- *)
NumKeys == 3
MaxLen == 3
NumInv == 2

Keys == 1..NumKeys
Invocations == 1..NumInv

(* ------------------------- values and helpers -------------------------- *)
NotFound == -1
NoQueue == [absent |-> TRUE]
NoDirective == [behavior |-> "NONE"]
NoToken == 0

\* The track lists the library's named entities (tracks, albums, artists,
\* playlists) resolve to: the runs k, k+1, ... of the key ring of every
\* length up to MaxLen, and the same runs followed by their first track
\* again (a playlist that lists one track twice).
Run(k, n) == [i \in 1..n |-> ((k + i - 2) % NumKeys) + 1]

Library ==
    {Run(k, n) : k \in Keys, n \in 0..MaxLen}
    \cup {Append(Run(k, n), k) : k \in Keys, n \in 1..(MaxLen - 1)}

Queue(tracks, current_index, shuffle) ==
    [tracks |-> tracks, current_index |-> current_index, shuffle |-> shuffle]

\* `queue_data and queue_data.get('tracks')`
HasTracks(queue_data) == queue_data # NoQueue /\ queue_data.tracks # <<>>

\* mutant: the loop without its break ends on the last matching track
FindTokenLast(tracks, token) ==
    IF \E i \in 1..Len(tracks) : tracks[i] = token
    THEN (CHOOSE i \in 1..Len(tracks) :
             /\ tracks[i] = token
             /\ \A j \in (i + 1)..Len(tracks) : tracks[j] # token) - 1
    ELSE NotFound

\* for index, track_info in enumerate(tracks): if str(key) == str(token): ... break
FindToken(tracks, token) ==
    IF \E i \in 1..Len(tracks) : tracks[i] = token
    THEN (CHOOSE i \in 1..Len(tracks) :
             /\ tracks[i] = token
             /\ \A j \in 1..(i - 1) : tracks[j] # token) - 1
    ELSE NotFound

\* mutant: the update never reaches the record
update_queue_index_lost(item, new_index) == item

\* mutant: the update rewrites the record as save_queue's defaults would
update_queue_index_resave(item, new_index) ==
    IF item = [absent |-> TRUE]
    THEN [tracks |-> <<>>, current_index |-> new_index, shuffle |-> FALSE]
    ELSE [tracks |-> item.tracks, current_index |-> new_index, shuffle |-> FALSE]

\* table.update_item(SET current_index = :index): an upsert of one attribute
update_queue_index(item, new_index) ==
    IF item = NoQueue
    THEN Queue(<<>>, new_index, FALSE)
    ELSE [item EXCEPT !.current_index = new_index]

\* table.put_item(Item=item): unconditional overwrite of the whole record
put_item(item) == item

PlayDirective(behavior, key, expected_previous_token) ==
    [behavior |-> behavior, token |-> key,
     expected_previous_token |-> expected_previous_token]

\* get_track_by_key + the directive built from the loaded track
DirectiveFor(loaded, behavior, key, expected_previous_token) ==
    IF loaded THEN PlayDirective(behavior, key, expected_previous_token)
    ELSE NoDirective

\* What one invocation took in and gave out: its handler, the request's
\* token and error, whether the media server answers its track lookup
\* (loaded), the record get_queue returned (NoQueue also when the handler
\* never called get_queue), the indexes passed to update_queue_index, whether
\* it called put_item, and the directive and speech of its response; for a
\* play request also the list it resolved (tracks_to_play) and its shuffle
\* flag.
Response(handler, token, error, loaded, queue_data, updates, put, directive, speech) ==
    [handler |-> handler, token |-> token, error |-> error, loaded |-> loaded,
     queue_data |-> queue_data, updates |-> updates, put |-> put,
     directive |-> directive, speech |-> speech,
     tracks_to_play |-> <<>>, should_shuffle |-> FALSE, resolved |-> <<>>]

NoError == <<>>

\* The `type` of the error object of an AudioPlayer.PlaybackFailed request,
\* as the words of its name; NoError is a request without an error object.
ErrorTypes ==
    { <<"MEDIA", "ERROR", "UNKNOWN">>,
      <<"MEDIA", "ERROR", "INVALID", "REQUEST">>,
      <<"MEDIA", "ERROR", "SERVICE", "UNAVAILABLE">>,
      <<"MEDIA", "ERROR", "INTERNAL", "SERVER", "ERROR">> }

\* `sub in s` on the words of s
Contains(s, sub) ==
    \E i \in 1..(Len(s) - Len(sub) + 1) : SubSeq(s, i, i + Len(sub) - 1) = sub

\* mutant: every error object counts as SERVICE_UNAVAILABLE
IsServiceUnavailableAny(error) == error # NoError

\* error and hasattr(error, 'type') and 'SERVICE_UNAVAILABLE' in str(error.type)
IsServiceUnavailable(error) ==
    error # NoError /\ Contains(error, <<"SERVICE", "UNAVAILABLE">>)

\* random.shuffle: every ordering of the list is a possible outcome
Shuffles(tracks) ==
    {[i \in 1..Len(tracks) |-> tracks[p[i]]] : p \in Permutations(1..Len(tracks))}

(* --------------------------- PlaybackStarted --------------------------- *)
\* mutant: a token that is not found resets the queue to its first track
StartedIndexDefault(queue_data, current_token) ==
    IF queue_data # NoQueue /\ queue_data.tracks # <<>>
    THEN LET found == FindToken(queue_data.tracks, current_token)
             index == IF found = NotFound THEN 0 ELSE found
         IN IF index # queue_data.current_index THEN index ELSE NotFound
    ELSE NotFound

\* The index PlaybackStarted passes to update_queue_index, NotFound if none.
StartedIndex(queue_data, current_token) ==
    IF HasTracks(queue_data)
    THEN LET index == FindToken(queue_data.tracks, current_token) IN
         IF index # NotFound /\ index # queue_data.current_index
         THEN index ELSE NotFound
    ELSE NotFound

(* ------------------------ PlaybackNearlyFinished ----------------------- *)
\* mutant: a token that is not found restarts from the first track
ActualCurrentIndexRestart(queue_data, current_token) ==
    LET found == FindToken(queue_data.tracks, current_token) IN
    IF found = NotFound THEN 0 ELSE found

\* actual_current_index: the token's position, else the stored index
ActualCurrentIndex(queue_data, current_token) ==
    LET found == FindToken(queue_data.tracks, current_token) IN
    IF found = NotFound THEN queue_data.current_index ELSE found

\* mutant: the handler stores the position of the track it enqueues
NearlyFinishedIndexAdvance(queue_data, current_token) ==
    IF queue_data # NoQueue /\ queue_data.tracks # <<>>
    THEN LET found == FindToken(queue_data.tracks, current_token) IN
         IF found # NotFound /\ found # queue_data.current_index
         THEN (IF found + 1 < Len(queue_data.tracks) THEN found + 1 ELSE found)
         ELSE NotFound
    ELSE NotFound

\* The index PlaybackNearlyFinished passes to update_queue_index, NotFound if none.
NearlyFinishedIndex(queue_data, current_token) ==
    IF HasTracks(queue_data)
    THEN LET found == FindToken(queue_data.tracks, current_token) IN
         IF found # NotFound /\ found # queue_data.current_index
         THEN found ELSE NotFound
    ELSE NotFound

\* mutant: the next track is computed from the stored index
NearlyFinishedDirectiveStale(queue_data, current_token, loaded) ==
    IF queue_data = NoQueue \/ queue_data.tracks = <<>> THEN NoDirective
    ELSE LET next_index == queue_data.current_index + 1 IN
         IF next_index >= Len(queue_data.tracks) THEN NoDirective
         ELSE DirectiveFor(loaded, "ENQUEUE", queue_data.tracks[next_index + 1],
                           current_token)

\* mutant: past the last track the queue starts over
NearlyFinishedDirectiveWrap(queue_data, current_token, loaded) ==
    IF queue_data = NoQueue \/ queue_data.tracks = <<>> THEN NoDirective
    ELSE LET next_index == (ActualCurrentIndex(queue_data, current_token) + 1)
                               % Len(queue_data.tracks) IN
         DirectiveFor(loaded, "ENQUEUE", queue_data.tracks[next_index + 1],
                      current_token)

\* mutant: the expected-previous token is the key of the track at the
\* stored index
NearlyFinishedDirectiveStoredToken(queue_data, current_token, loaded) ==
    IF queue_data = NoQueue \/ queue_data.tracks = <<>> THEN NoDirective
    ELSE LET next_index == ActualCurrentIndex(queue_data, current_token) + 1 IN
         IF next_index >= Len(queue_data.tracks) THEN NoDirective
         ELSE DirectiveFor(loaded, "ENQUEUE", queue_data.tracks[next_index + 1],
                           queue_data.tracks[queue_data.current_index + 1])

\* The directive of PlaybackNearlyFinished's response.
NearlyFinishedDirective(queue_data, current_token, loaded) ==
    IF ~HasTracks(queue_data) THEN NoDirective
    ELSE LET next_index == ActualCurrentIndex(queue_data, current_token) + 1 IN
         IF next_index >= Len(queue_data.tracks) THEN NoDirective
         ELSE DirectiveFor(loaded, "ENQUEUE", queue_data.tracks[next_index + 1],
                           current_token)

(* ---------------------------- PlaybackFailed --------------------------- *)
\* mutant: the retry stays on the failed track
FailedIndexSame(queue_data, error) ==
    IF IsServiceUnavailable(error) /\ queue_data # NoQueue
       /\ queue_data.tracks # <<>>
    THEN LET next_index == queue_data.current_index + 1 IN
         IF next_index < Len(queue_data.tracks) THEN next_index - 1 ELSE NotFound
    ELSE NotFound

\* mutant: the next index is passed on without the check against the length
FailedIndexUnchecked(queue_data, error) ==
    IF IsServiceUnavailable(error) /\ HasTracks(queue_data)
    THEN queue_data.current_index + 1
    ELSE NotFound

\* mutant: at the end of the queue the recovery starts over at the first track
FailedIndexWraps(queue_data, error) ==
    IF IsServiceUnavailable(error) /\ HasTracks(queue_data)
    THEN (queue_data.current_index + 1) % Len(queue_data.tracks)
    ELSE NotFound

\* The index PlaybackFailed passes to update_queue_index, NotFound if none.
FailedIndex(queue_data, error) ==
    IF IsServiceUnavailable(error) /\ HasTracks(queue_data)
    THEN LET next_index == queue_data.current_index + 1 IN
         IF next_index < Len(queue_data.tracks) THEN next_index ELSE NotFound
    ELSE NotFound

\* The directive of PlaybackFailed's response.
FailedDirective(queue_data, error, loaded) ==
    LET next_index == FailedIndex(queue_data, error) IN
    IF next_index = NotFound THEN NoDirective
    ELSE DirectiveFor(loaded, "REPLACE_ALL", queue_data.tracks[next_index + 1],
                      NoToken)

(* --------------------------- Next / Previous --------------------------- *)
NextSpeech(queue_data, loaded) ==
    IF ~HasTracks(queue_data) THEN "no_queue"
    ELSE IF queue_data.current_index + 1 >= Len(queue_data.tracks)
         THEN "end_of_queue"
         ELSE IF loaded THEN "none" ELSE "load_failed"

NextDirective(queue_data, loaded) ==
    IF NextSpeech(queue_data, loaded) = "none"
    THEN PlayDirective("REPLACE_ALL",
                       queue_data.tracks[queue_data.current_index + 2], NoToken)
    ELSE NoDirective

\* tracks[prev_index] raises IndexError past the end of the list
PreviousSpeech(queue_data, loaded) ==
    IF ~HasTracks(queue_data) THEN "no_queue"
    ELSE IF queue_data.current_index - 1 < 0 THEN "beginning_of_queue"
         ELSE IF queue_data.current_index - 1 >= Len(queue_data.tracks)
              THEN "error"
              ELSE IF loaded THEN "none" ELSE "load_failed"

PreviousDirective(queue_data, loaded) ==
    IF PreviousSpeech(queue_data, loaded) = "none"
    THEN PlayDirective("REPLACE_ALL",
                       queue_data.tracks[queue_data.current_index], NoToken)
    ELSE NoDirective

(* ------------------------- ShuffleOn / ShuffleOff ---------------------- *)
\* ShuffleOn can write: a queue with tracks whose tracks[current_index] exists
CanShuffle(queue_data) ==
    HasTracks(queue_data) /\ queue_data.current_index < Len(queue_data.tracks)

\* The record ShuffleOn puts, given the outcome `shuffled` of random.shuffle.
ShuffleOnItem(queue_data, shuffled) ==
    LET current_track == queue_data.tracks[queue_data.current_index + 1]
        others == SelectSeq(shuffled, LAMBDA t : t # current_track)
    IN Queue(<<current_track>> \o others, 0, TRUE)

\* The record ShuffleOff puts.
ShuffleOffItem(queue_data) == [queue_data EXCEPT !.shuffle = FALSE]

(* ------------------------------ PlayMusic ------------------------------ *)
\* the number of positions of tracks that hold key
Count(tracks, key) == Cardinality({i \in 1..Len(tracks) : tracks[i] = key})

\* track_order = {int(t.ratingKey): i for i, t in enumerate(tracks)}: a key
\* listed more than once keeps the index of its last occurrence
track_order(tracks, key) ==
    CHOOSE i \in 1..Len(tracks) :
        /\ tracks[i] = key
        /\ \A j \in (i + 1)..Len(tracks) : tracks[j] # key

Copies(key, n) == [i \in 1..n |-> key]

\* serialized.sort(key=lambda x: track_order.get(x['key'])), from position i
\* of tracks on: the descriptors of one key are equal, so the sorted list is
\* the keys in the order of their track_order, each as often as serialized
\* holds it
RECURSIVE SortByTrackOrder(_, _, _)
SortByTrackOrder(serialized, tracks, i) ==
    IF i > Len(tracks) THEN <<>>
    ELSE (IF track_order(tracks, tracks[i]) = i
          THEN Copies(tracks[i], Count(serialized, tracks[i]))
          ELSE <<>>) \o SortByTrackOrder(serialized, tracks, i + 1)

\* serialize_tracks_parallel: tracks whose serialize_track fails are
\* dropped; with a cached artist name the tracks are serialized in order,
\* without one they are serialized by the worker pool and sorted back
SerializeTracks(tracks, bad, cached) ==
    LET serialized == SelectSeq(tracks, LAMBDA k : k \notin bad) IN
    IF cached THEN serialized ELSE SortByTrackOrder(serialized, tracks, 1)

\* Whether the request that resolves to tracks has a cached artist name.
\* The lists of Library that hold a track twice are playlists, which have
\* none (cached_artist_name stays None); its other lists are the tracks of
\* an artist or of an album whose artist() answers, which have one.
CachedArtistName(tracks) ==
    {\A key \in Keys : Count(tracks, key) <= 1}

\* The sets of library tracks whose serialization fails, as drawn by the
\* play requests of Spec: every track of the library serializes
WellFormed == {{}}

\* The record save_queue puts for a play request.
SavedQueue(tracks_to_play, should_shuffle, bad, cached) ==
    Queue(SerializeTracks(tracks_to_play, bad, cached), 0, should_shuffle)

\* The play directive of a play request (first_track of tracks_to_play).
PlayMusicDirective(tracks_to_play, artist_ok) ==
    IF tracks_to_play # <<>> /\ artist_ok
    THEN PlayDirective("REPLACE_ALL", tracks_to_play[1], NoToken)
    ELSE NoDirective

(* ====================== atomic handlers (Spec) ========================= *)
Idle == [pc |-> "idle", index |-> NotFound, item |-> NoQueue]

NoLast == [started |-> FALSE, token |-> NoToken, alone |-> FALSE,
           read |-> NotFound]

NoResponse ==
    Response("none", NoToken, NoError, TRUE, NoQueue, <<>>, FALSE, NoDirective, "none")

\* no call of a library function is in progress
NoCall == [pc |-> "none"]

Init ==
    /\ store = NoQueue
    /\ resp = NoResponse
    /\ inv = [p \in Invocations |-> Idle]
    /\ last = NoLast
    /\ call = NoCall

ConcUnchanged == UNCHANGED <<inv, last, call>>

\* The store after the updates an invocation passed to update_queue_index.
ApplyUpdate(item, index) ==
    IF index = NotFound THEN item ELSE update_queue_index(item, index)

Updates(index) == IF index = NotFound THEN <<>> ELSE <<index>>

PlayMusicNotFound ==
    /\ resp' = Response("PlayMusic", NoToken, NoError, TRUE, NoQueue, <<>>, FALSE,
                        NoDirective, "not_found")
    /\ UNCHANGED store
    /\ ConcUnchanged

\* tracks: the list resolved by lines 559-673; artist_ok: whether
\* first_track.artist() answers (line 696)
PlayMusic(tracks, should_shuffle, bad, cached, artist_ok) ==
    \E tracks_to_play \in (IF should_shuffle /\ Len(tracks) > 1
                           THEN Shuffles(tracks) ELSE {tracks}) :
        /\ store' = put_item(SavedQueue(tracks_to_play, should_shuffle, bad,
                                        cached))
        /\ resp' = [Response("PlayMusic", NoToken, NoError, artist_ok, NoQueue,
                             <<>>, TRUE,
                             PlayMusicDirective(tracks_to_play, artist_ok),
                             IF tracks_to_play # <<>> /\ ~artist_ok
                             THEN "error" ELSE "playing")
                       EXCEPT !.tracks_to_play = tracks_to_play,
                              !.should_shuffle = should_shuffle,
                              !.resolved = tracks]
        /\ ConcUnchanged

\* mutant: Next stores the index of the track it plays
NextIntentHandleAdvances(loaded) ==
    LET directive == NextDirective(store, loaded)
        index == IF directive = NoDirective THEN NotFound
                 ELSE store.current_index + 1 IN
    /\ store' = ApplyUpdate(store, index)
    /\ resp' = Response("Next", NoToken, NoError, loaded, store, Updates(index),
                        FALSE, directive, NextSpeech(store, loaded))

\* mutant: Next stores the index of the track it plays
NextIntentAdvances(loaded) ==
    /\ NextIntentHandleAdvances(loaded)
    /\ ConcUnchanged

\* NextIntentHandler.handle: what it does to the store and its response
NextIntentHandle(loaded) ==
    /\ resp' = Response("Next", NoToken, NoError, loaded, store, <<>>, FALSE,
                        NextDirective(store, loaded), NextSpeech(store, loaded))
    /\ UNCHANGED store

NextIntent(loaded) ==
    /\ NextIntentHandle(loaded)
    /\ ConcUnchanged

PreviousIntent(loaded) ==
    /\ resp' = Response("Previous", NoToken, NoError, loaded, store, <<>>, FALSE,
                        PreviousDirective(store, loaded),
                        PreviousSpeech(store, loaded))
    /\ UNCHANGED store
    /\ ConcUnchanged

\* PlaybackStartedHandler.handle: what it does to the store and its
\* response
PlaybackStartedHandle(current_token) ==
    LET index == StartedIndex(store, current_token) IN
    /\ store' = ApplyUpdate(store, index)
    /\ resp' = Response("PlaybackStarted", current_token, NoError, TRUE, store,
                        Updates(index), FALSE, NoDirective, "none")

PlaybackStarted(current_token) ==
    /\ PlaybackStartedHandle(current_token)
    /\ ConcUnchanged

\* PlaybackNearlyFinishedHandler.handle: what it does to the store and its
\* response
PlaybackNearlyFinishedHandle(current_token, loaded) ==
    LET index == NearlyFinishedIndex(store, current_token) IN
    /\ store' = ApplyUpdate(store, index)
    /\ resp' = Response("PlaybackNearlyFinished", current_token, NoError, loaded,
                        store,
                        Updates(index), FALSE,
                        NearlyFinishedDirective(store, current_token, loaded),
                        "none")

PlaybackNearlyFinished(current_token, loaded) ==
    /\ PlaybackNearlyFinishedHandle(current_token, loaded)
    /\ ConcUnchanged

\* mutant: the index is written only after the next track has been loaded
PlaybackFailedHandleLoadFirst(error, loaded) ==
    LET index == IF loaded THEN FailedIndex(store, error) ELSE NotFound IN
    /\ store' = ApplyUpdate(store, index)
    /\ resp' = Response("PlaybackFailed", NoToken, error, loaded,
                        IF IsServiceUnavailable(error) THEN store ELSE NoQueue,
                        Updates(index), FALSE,
                        FailedDirective(store, error, loaded), "none")

\* PlaybackFailedHandler.handle: what it does to the store and its response
PlaybackFailedHandle(error, loaded) ==
    LET index == FailedIndex(store, error) IN
    /\ store' = ApplyUpdate(store, index)
    /\ resp' = Response("PlaybackFailed", NoToken, error, loaded,
                        IF IsServiceUnavailable(error) THEN store ELSE NoQueue,
                        Updates(index), FALSE,
                        FailedDirective(store, error, loaded), "none")

PlaybackFailed(error, loaded) ==
    /\ PlaybackFailedHandle(error, loaded)
    /\ ConcUnchanged

\* mutant: a position past the end is taken for the first track
ShuffleOnIntentHandleClamps ==
    IF HasTracks(store)
    THEN \E shuffled \in Shuffles(store.tracks) :
            /\ store' = put_item(ShuffleOnItem(
                            IF CanShuffle(store) THEN store
                            ELSE [store EXCEPT !.current_index = 0], shuffled))
            /\ resp' = Response("ShuffleOn", NoToken, NoError, TRUE, store, <<>>, TRUE,
                                NoDirective, "shuffle_on")
    ELSE /\ resp' = Response("ShuffleOn", NoToken, NoError, TRUE, store, <<>>, FALSE,
                             NoDirective, "no_queue")
         /\ UNCHANGED store

\* ShuffleOnIntentHandler.handle: what it does to the store and its response
ShuffleOnIntentHandle ==
    IF CanShuffle(store)
    THEN \E shuffled \in Shuffles(store.tracks) :
            /\ store' = put_item(ShuffleOnItem(store, shuffled))
            /\ resp' = Response("ShuffleOn", NoToken, NoError, TRUE, store, <<>>, TRUE,
                                NoDirective, "shuffle_on")
    ELSE /\ resp' = Response("ShuffleOn", NoToken, NoError, TRUE, store, <<>>, FALSE,
                             NoDirective,
                             IF HasTracks(store) THEN "error" ELSE "no_queue")
         /\ UNCHANGED store

ShuffleOnIntent ==
    /\ ShuffleOnIntentHandle
    /\ ConcUnchanged

ShuffleOffIntent ==
    /\ store' = IF store # NoQueue THEN put_item(ShuffleOffItem(store)) ELSE store
    /\ resp' = Response("ShuffleOff", NoToken, NoError, TRUE, store, <<>>,
                        store # NoQueue, NoDirective, "shuffle_off")
    /\ ConcUnchanged

Next ==
    \/ PlayMusicNotFound
    \/ \E tracks \in Library, should_shuffle \in BOOLEAN, bad \in WellFormed :
          \E cached \in CachedArtistName(tracks) :
              PlayMusic(tracks, should_shuffle, bad, cached, TRUE)
    \/ \E loaded \in BOOLEAN : NextIntent(loaded)
    \/ \E loaded \in BOOLEAN : PreviousIntent(loaded)
    \/ \E current_token \in Keys : PlaybackStarted(current_token)
    \/ \E current_token \in Keys, loaded \in BOOLEAN :
          PlaybackNearlyFinished(current_token, loaded)
    \/ \E error \in ErrorTypes \cup {NoError}, loaded \in BOOLEAN :
          PlaybackFailed(error, loaded)
    \/ ShuffleOnIntent
    \/ ShuffleOffIntent

Spec == Init /\ [][Next]_vars

(* ================= interleaved invocations (SpecConc) ================== *)
(* Each invocation is an independent Lambda execution; nothing orders the  *)
(* store operations of two invocations.  An invocation begins with its     *)
(* get_queue (a play request, which reads nothing, with its save_queue).   *)
(* inv[p] holds the position of invocation p and the argument of its       *)
(* pending store write: index for update_queue_index, item for put_item.   *)
(***************************************************************************)
Quiescent == \A p \in Invocations : inv[p].pc = "idle"

OthersIdle(p) == \A q \in Invocations \ {p} : inv[q].pc = "idle"

Running(pc, index, item) == [pc |-> pc, index |-> index, item |-> item]

\* get_queue, then the handler's decision to call update_queue_index(index);
\* began is the value of last once this invocation has begun
GetThenUpdate(p, index, began) ==
    /\ inv[p].pc = "idle"
    /\ inv' = IF index = NotFound THEN inv
              ELSE [inv EXCEPT ![p] = Running("update", index, NoQueue)]
    /\ last' = began
    /\ UNCHANGED <<store, resp, call>>

StartedGet(p, current_token, began) ==
    GetThenUpdate(p, StartedIndex(store, current_token), began)

NearlyFinishedGet(p, current_token, began) ==
    GetThenUpdate(p, NearlyFinishedIndex(store, current_token), began)

FailedGet(p, error, began) ==
    GetThenUpdate(p, FailedIndex(store, error), began)

\* Next and Previous read the queue and write nothing
NavigationGet(p, began) == GetThenUpdate(p, NotFound, began)

\* get_queue of ShuffleOn and the local reshuffle of the list read
ShuffleOnGet(p, began) ==
    /\ inv[p].pc = "idle"
    /\ IF CanShuffle(store)
       THEN \E shuffled \in Shuffles(store.tracks) :
               inv' = [inv EXCEPT ![p] =
                         Running("put", NotFound, ShuffleOnItem(store, shuffled))]
       ELSE UNCHANGED inv
    /\ last' = began
    /\ UNCHANGED <<store, resp, call>>

\* get_queue of ShuffleOff
ShuffleOffGet(p, began) ==
    /\ inv[p].pc = "idle"
    /\ inv' = IF store # NoQueue
              THEN [inv EXCEPT ![p] =
                      Running("put", NotFound, ShuffleOffItem(store))]
              ELSE inv
    /\ last' = began
    /\ UNCHANGED <<store, resp, call>>

\* update_queue_index(user_id, index) of a reconciliation handler
Update(p) ==
    /\ inv[p].pc = "update"
    /\ store' = update_queue_index(store, inv[p].index)
    /\ inv' = [inv EXCEPT ![p] = Idle]
    /\ UNCHANGED <<resp, last, call>>

\* table.put_item(Item=queue_data) of ShuffleOn / ShuffleOff
Put(p) ==
    /\ inv[p].pc = "put"
    /\ store' = put_item(inv[p].item)
    /\ inv' = [inv EXCEPT ![p] = Idle]
    /\ UNCHANGED <<resp, last, call>>

\* save_queue of a play request
PlayMusicSave(p, tracks, should_shuffle, bad, cached, began) ==
    /\ inv[p].pc = "idle"
    /\ \E tracks_to_play \in (IF should_shuffle /\ Len(tracks) > 1
                              THEN Shuffles(tracks) ELSE {tracks}) :
          store' = put_item(SavedQueue(tracks_to_play, should_shuffle, bad,
                                       cached))
    /\ last' = began
    /\ UNCHANGED <<inv, resp, call>>

\* SpecConc keeps no record of the order in which invocations begin
NextConc ==
    \E p \in Invocations :
        \/ \E tracks \in Library, should_shuffle \in BOOLEAN, bad \in WellFormed :
              \E cached \in CachedArtistName(tracks) :
                  PlayMusicSave(p, tracks, should_shuffle, bad, cached, last)
        \/ \E current_token \in Keys : StartedGet(p, current_token, last)
        \/ \E current_token \in Keys : NearlyFinishedGet(p, current_token, last)
        \/ \E error \in ErrorTypes \cup {NoError} : FailedGet(p, error, last)
        \/ NavigationGet(p, last)
        \/ ShuffleOnGet(p, last)
        \/ ShuffleOffGet(p, last)
        \/ Update(p)
        \/ Put(p)

SpecConc == Init /\ [][NextConc]_vars

(* ====== invocations on an unchanged track list (SpecRecon) ============= *)
\* The records a play request followed by reconciliation can have stored.
SavedQueues ==
    {Queue(tracks, current_index, shuffle) :
        tracks \in {SerializeTracks(t, {}, FALSE) : t \in Library} \ {<<>>},
        current_index \in 0..(MaxLen - 1), shuffle \in BOOLEAN}

InitRecon ==
    /\ store \in {q \in SavedQueues : q.current_index < Len(q.tracks)}
    /\ resp = NoResponse
    /\ inv = [p \in Invocations |-> Idle]
    /\ last = NoLast
    /\ call = NoCall

\* last: whether the latest invocation to begin is a PlaybackStarted, its
\* token, whether every other invocation had completed when it began, and
\* the current_index it read
BeganStarted(p, current_token) ==
    [started |-> TRUE, token |-> current_token, alone |-> OthersIdle(p),
     read |-> store.current_index]

NextRecon ==
    \E p \in Invocations :
        \/ \E current_token \in Keys :
              StartedGet(p, current_token, BeganStarted(p, current_token))
        \/ \E current_token \in Keys : NearlyFinishedGet(p, current_token, NoLast)
        \/ \E error \in ErrorTypes \cup {NoError} : FailedGet(p, error, NoLast)
        \/ NavigationGet(p, NoLast)
        \/ ShuffleOffGet(p, NoLast)
        \/ Update(p)
        \/ Put(p)

SpecRecon == InitRecon /\ [][NextRecon]_vars

(* ========== navigation between interleaved writes (SpecNav) ============ *)
(* Next and Previous make one store operation, get_queue, and answer from  *)
(* what it returned; they run here as single steps between the store       *)
(* operations of one reconciliation handler (invocation 1) and of play     *)
(* requests (invocation 2).                                                *)
(***************************************************************************)
NextNav ==
    \/ \E tracks \in Library, should_shuffle \in BOOLEAN, bad \in WellFormed :
          \E cached \in CachedArtistName(tracks) :
              PlayMusicSave(2, tracks, should_shuffle, bad, cached, last)
    \/ \E current_token \in Keys : StartedGet(1, current_token, last)
    \/ \E current_token \in Keys : NearlyFinishedGet(1, current_token, last)
    \/ \E error \in ErrorTypes \cup {NoError} : FailedGet(1, error, last)
    \/ Update(1)
    \/ \E loaded \in BOOLEAN : NextIntent(loaded)
    \/ \E loaded \in BOOLEAN : PreviousIntent(loaded)

SpecNav == Init /\ [][NextNav]_vars

(* =============== plex_api_call_with_retry (SpecRetry) ================== *)
(* One call of plex_api_call_with_retry(func, max_retries).  call holds    *)
(* the loop variable attempt, last_exception, the outcomes of the calls of *)
(* func made so far (calls), the delays slept (sleeps) and what the call   *)
(* returned or raised (result).  An outcome is the type of what func did,  *)
(* tagged with the attempt that produced it.                               *)
(***************************************************************************)
MaxRetries == 4

\* except (SSLError, ConnectionError, Timeout)
Transient == {"SSLError", "ConnectionError", "Timeout"}

\* what else a call of func can raise: plexapi's NotFound and BadRequest
NonTransient == {"NotFound", "BadRequest"}

Outcomes == {"ok"} \cup Transient \cup NonTransient

Outcome(type, attempt) == [type |-> type, attempt |-> attempt]

NoException == [type |-> "None"]

\* whether the except clause catches an exception of this type
IsTransient(type) == type \in Transient

\* mutant: the loop allows one attempt more
AttemptsLeftOneMore(attempt, max_retries) == attempt < max_retries

\* if attempt < max_retries - 1
AttemptsLeft(attempt, max_retries) == attempt < max_retries - 1

\* mutant: the delay grows by one second
WaitTimeLinear(attempt) == attempt + 1

\* wait_time = 2 ** attempt
wait_time(attempt) == 2 ^ attempt

\* mutant: the first failure is kept
RememberFirst(last_exception, e) ==
    IF last_exception = [type |-> "None"] THEN e ELSE last_exception

\* last_exception = e
Remember(last_exception, e) == e

RetryCall(max_retries) ==
    [pc |-> "try", max_retries |-> max_retries, attempt |-> 0,
     last_exception |-> NoException, calls |-> <<>>, sleeps |-> <<>>,
     result |-> NoException]

InitRetry ==
    /\ store = NoQueue
    /\ resp = NoResponse
    /\ inv = [p \in Invocations |-> Idle]
    /\ last = NoLast
    /\ call \in {RetryCall(max_retries) : max_retries \in 1..MaxRetries}

\* One pass of the loop body up to its sleep: func is called and returns
\* (type "ok") or raises an exception of the given type.
RetryAttempt(type) ==
    LET e == Outcome(type, call.attempt)
        made == [call EXCEPT !.calls = Append(@, e)]
    IN /\ call.pc = "try"
       /\ call' =
              IF type = "ok"
              THEN [made EXCEPT !.pc = "returned", !.result = e]
              ELSE IF IsTransient(type)
                   THEN LET kept == Remember(call.last_exception, e) IN
                        IF AttemptsLeft(call.attempt, call.max_retries)
                        THEN [made EXCEPT !.pc = "sleep", !.last_exception = kept]
                        ELSE [made EXCEPT !.pc = "raised",
                                          !.last_exception = kept,
                                          !.result = kept]
                   ELSE [made EXCEPT !.pc = "raised", !.result = e]
       /\ UNCHANGED <<store, resp, inv, last>>

\* time.sleep(wait_time), then the next pass of the loop
RetrySleep ==
    /\ call.pc = "sleep"
    /\ call' = [call EXCEPT !.pc = "try",
                            !.sleeps = Append(@, wait_time(call.attempt)),
                            !.attempt = @ + 1]
    /\ UNCHANGED <<store, resp, inv, last>>

NextRetry ==
    \/ \E type \in Outcomes : RetryAttempt(type)
    \/ RetrySleep

\* the loop runs in one thread: a call of func returns or raises (every
\* remote call has a timeout) and time.sleep returns
SpecRetry == InitRetry /\ [][NextRetry]_vars /\ WF_vars(NextRetry)

(* ================ filter_tracks_by_rating (SpecFilter) ================== *)
(* One call of filter_tracks_by_rating on a list of tracks.  A track is    *)
(* its key and its userRating: a value of the 0-10 scale, NoRating when    *)
(* the attribute is missing or None, RatingError when reading it raises.   *)
(***************************************************************************)
MaxFiltered == 3

RatingScale == 10

NoRating == [rated |-> FALSE]

RatingError == [raises |-> TRUE]

\* a userRating that is a number
Rating(value) == [value |-> value]

Ratings == {Rating(value) : value \in 0..RatingScale} \cup {NoRating, RatingError}

Track(key, userRating) == [key |-> key, userRating |-> userRating]

\* the tracks of a list with the given ratings, keyed by position
Rated(ratings) == [i \in 1..Len(ratings) |-> Track(i, ratings[i])]

RatingLists == UNION {[1..n -> Ratings] : n \in 0..MaxFiltered}

\* mutant: a track whose rating cannot be read is dropped
KeepsTrackFailClosed(track) ==
    IF track.userRating = [raises |-> TRUE] THEN FALSE
    ELSE IF track.userRating # [rated |-> FALSE]
         THEN track.userRating.value >= 4 \/ track.userRating.value = 0
         ELSE TRUE

\* whether the loop body appends the track to filtered_tracks
KeepsTrack(track) ==
    IF track.userRating = RatingError THEN TRUE
    ELSE IF track.userRating # NoRating
         THEN track.userRating.value >= 4 \/ track.userRating.value = 0
         ELSE TRUE

filter_tracks_by_rating(tracks) == SelectSeq(tracks, KeepsTrack)

InitFilter ==
    /\ store = NoQueue
    /\ resp = NoResponse
    /\ inv = [p \in Invocations |-> Idle]
    /\ last = NoLast
    /\ call \in {[pc |-> "filter", tracks |-> Rated(ratings), result |-> <<>>] :
                    ratings \in RatingLists}

FilterTracks ==
    /\ call.pc = "filter"
    /\ call' = [call EXCEPT !.pc = "filtered",
                            !.result = filter_tracks_by_rating(call.tracks)]
    /\ UNCHANGED <<store, resp, inv, last>>

NextFilter == FilterTracks

SpecFilter == InitFilter /\ [][NextFilter]_vars

(* ============ resolving a play request (SpecSelect) ==================== *)
(* The part of PlayMusicIntentHandler.handle that turns what the library   *)
(* answers for the named entity into tracks_to_play.  MAX_TRACKS is 150 in *)
(* the code and scaled down here; the code's multiples of it (3 and 2      *)
(* times MAX_TRACKS) are kept.  A recording has one rating, so the rating  *)
(* of a track is a function of its key.                                    *)
(***************************************************************************)
MAX_TRACKS == 2

SelKeys == 2

SelLen == 7

Min(a, b) == IF a <= b THEN a ELSE b

\* seq[:n]
Take(seq, n) == SubSeq(seq, 1, Min(n, Len(seq)))

\* the ratings a recording of the library can have here: one star or none
SelRatings == {Rating(2), NoRating}

\* the rating of each recording: recording 1 has any of SelRatings, the
\* others are unrated
SelRatingOf ==
    {[key \in 1..SelKeys |-> IF key = 1 THEN r ELSE NoRating] : r \in SelRatings}

\* what the library answers: lists of up to SelLen tracks over SelKeys
\* recordings
SelLists ==
    UNION {{[i \in 1..n |-> Track(keys[i], rating[keys[i]])] :
               keys \in [1..n -> 1..SelKeys]} :
           n \in 0..SelLen, rating \in SelRatingOf}

\* for track in tracks_to_process: the loop from position i on, with
\* seen_keys and unique_tracks so far; it breaks once unique_tracks holds
\* MAX_TRACKS * 2 tracks
RECURSIVE Dedup(_, _, _, _)
Dedup(tracks, i, seen, unique) ==
    IF i > Len(tracks) THEN unique
    ELSE IF tracks[i].key \in seen THEN Dedup(tracks, i + 1, seen, unique)
         ELSE LET more == Append(unique, tracks[i]) IN
              IF Len(more) >= MAX_TRACKS * 2 THEN more
              ELSE Dedup(tracks, i + 1, seen \cup {tracks[i].key}, more)

\* tracks_to_play of an artist request
ArtistTracks(all_artist_tracks) ==
    LET tracks_to_process ==
            IF Len(all_artist_tracks) > MAX_TRACKS
            THEN Take(all_artist_tracks, MAX_TRACKS * 3)
            ELSE all_artist_tracks
        unique_tracks == Dedup(tracks_to_process, 1, {}, <<>>)
    IN Take(filter_tracks_by_rating(unique_tracks), MAX_TRACKS)

\* mutant: the filtered list is not capped
CappedTracksAll(tracks) == filter_tracks_by_rating(tracks)

\* tracks_to_play of an album request (all_album_tracks) and of a playlist
\* request (the tracks fetched from the playlist)
CappedTracks(tracks) == Take(filter_tracks_by_rating(tracks), MAX_TRACKS)

\* tracks_to_play of a track request whose search found results and whose
\* filtered results are not empty
TrackTracks(results) == Take(filter_tracks_by_rating(results), 1)

Kinds == {"track", "album", "artist", "playlist"}

\* tracks_to_play of a request of the given kind
Resolve(kind, tracks) ==
    IF kind = "artist" THEN ArtistTracks(tracks)
    ELSE IF kind = "track" THEN TrackTracks(tracks)
    ELSE CappedTracks(tracks)

\* the ratingKey of each track of a list
RatingKeys(tracks) == [i \in 1..Len(tracks) |-> tracks[i].key]

\* Whether cached_artist_name is set when the queue is serialized: always
\* for an artist, for an album when album.artist() answers, never for a
\* playlist or a track
CachedFor(kind) ==
    IF kind = "artist" THEN {TRUE}
    ELSE IF kind = "album" THEN BOOLEAN
    ELSE {FALSE}

\* the sets of recordings whose serialization fails, as drawn by SpecSelect
Unserializable == {{}, {1}}

InitSelect ==
    /\ store = NoQueue
    /\ resp = NoResponse
    /\ inv = [p \in Invocations |-> Idle]
    /\ last = NoLast
    /\ call \in {[pc |-> "select", kind |-> kind, tracks |-> tracks,
                    result |-> <<>>] : kind \in Kinds, tracks \in SelLists}

\* lines 559-673: the request is resolved; a track request none of whose
\* results passes the filter returns without a queue
Select ==
    /\ call.pc = "select"
    /\ LET tracks_to_play == Resolve(call.kind, call.tracks) IN
       call' = [call EXCEPT
                   !.pc = IF call.kind = "track" /\ tracks_to_play = <<>>
                          THEN "returned" ELSE "selected",
                   !.result = tracks_to_play]
    /\ UNCHANGED <<store, resp, inv, last>>

\* lines 675-686: shuffle, serialize and save the resolved tracks
SaveSelected ==
    /\ call.pc = "selected"
    /\ \E should_shuffle \in BOOLEAN, bad \in Unserializable,
          cached \in CachedFor(call.kind) :
          \E tracks_to_play \in (IF should_shuffle /\ Len(call.result) > 1
                                  THEN Shuffles(RatingKeys(call.result))
                                  ELSE {RatingKeys(call.result)}) :
             store' = put_item(SavedQueue(tracks_to_play, should_shuffle, bad,
                                          cached))
    /\ call' = [call EXCEPT !.pc = "saved"]
    /\ UNCHANGED <<resp, inv, last>>

NextSelect == Select \/ SaveSelected

SpecSelect == InitSelect /\ [][NextSelect]_vars

(* ============ fetching a playlist by pages (SpecPages) ================= *)
(* One call fetch_playlist_tracks_paginated(playlist, MAX_TRACKS * 2) in   *)
(* call.  The playlist is its positions 1..total_size, and the server      *)
(* answers a page query with the positions of that page.  page_size is 50  *)
(* in the code and scaled down here with MAX_TRACKS, so that target_count  *)
(* stays a multiple of it.                                                 *)
(***************************************************************************)
page_size == 2

MaxPlaylist == 9

\* target_fetch = MAX_TRACKS * 2, the target_count of the call
target_fetch == MAX_TRACKS * 2

\* (a + b - 1) // b
CeilDiv(a, b) == (a + b - 1) \div b

\* sorted(S) for a set of numbers
RECURSIVE Sorted(_)
Sorted(S) ==
    IF S = {} THEN <<>>
    ELSE LET least == CHOOSE x \in S : \A y \in S : x <= y
         IN <<least>> \o Sorted(S \ {least})

\* sorted(random.sample(range(total_pages), min(pages_needed, total_pages))):
\* every outcome of the draw
pages_to_fetch(total_pages, pages_needed) ==
    {Sorted(S) : S \in {T \in SUBSET (0..(total_pages - 1)) :
                           Cardinality(T) = Min(pages_needed, total_pages)}}

\* mutant: a playlist one page larger is still fetched whole
SmallEnoughPlusPage(total_size, target_count) ==
    total_size <= target_count + page_size

\* `if total_size <= target_count`: the playlist is fetched whole
SmallEnough(total_size, target_count) == total_size <= target_count

\* the positions of the playlist, list(playlist.items())
Items(total_size) == [i \in 1..total_size |-> i]

\* the answer of the server to a query with X-Plex-Container-Start and
\* X-Plex-Container-Size
PageItems(total_size, start, size) ==
    [i \in 1..(Min(start + size, total_size) - Min(start, total_size)) |->
        start + i]

\* mutant: the offset of a page is its number
StartIndexPage(page_num) == page_num

\* start_index = page_num * page_size
StartIndex(page_num) == page_num * page_size

\* how total_size is learnt: from the leafCount attribute, after a reload,
\* or not at all (the reload raises)
Metadata == {"leafCount", "reload", "raises"}

FetchCall(total_size) ==
    [pc |-> "begin", total_size |-> total_size, metadata |-> "leafCount",
     pages |-> <<>>, next |-> 1, requests |-> <<>>, all_tracks |-> <<>>,
     full |-> FALSE, failed |-> 0]

InitPages ==
    /\ store = NoQueue
    /\ resp = NoResponse
    /\ inv = [p \in Invocations |-> Idle]
    /\ last = NoLast
    /\ call \in {FetchCall(total_size) : total_size \in 0..MaxPlaylist}

PagesUnchanged == UNCHANGED <<store, resp, inv, last>>

\* return list(playlist.items())
FetchAll(metadata) ==
    [call EXCEPT !.pc = "done", !.metadata = metadata, !.full = TRUE,
                 !.all_tracks = Items(call.total_size)]

\* lines 324-353: the size is read and either the whole playlist is
\* returned or the pages are drawn
FetchBegin(metadata) ==
    /\ call.pc = "begin"
    /\ IF metadata = "raises" \/ SmallEnough(call.total_size, target_fetch)
       THEN call' = FetchAll(metadata)
       ELSE \E pages \in pages_to_fetch(CeilDiv(call.total_size, page_size),
                                         CeilDiv(target_fetch, page_size)) :
               call' = [call EXCEPT !.pc = "page", !.metadata = metadata,
                                    !.pages = pages]
    /\ PagesUnchanged

Request(page_num, ok) ==
    [page |-> page_num, start |-> StartIndex(page_num), size |-> page_size,
     ok |-> ok]

\* the end of one pass of the loop: `continue` after a failure, the check
\* of line 386 after a success
AfterPage(c, extended) ==
    IF (extended /\ Len(c.all_tracks) >= target_fetch) \/ c.next >= Len(c.pages)
    THEN [c EXCEPT !.pc = "done"]
    ELSE [c EXCEPT !.pc = "page", !.next = c.next + 1]

\* lines 355-383: one page is queried; outcome is that of server.query
FetchPage(outcome) ==
    /\ call.pc = "page"
    /\ LET page_num == call.pages[call.next]
           asked == [call EXCEPT
                        !.requests = Append(@, Request(page_num, outcome = "ok")),
                        !.failed = IF outcome = "ok" THEN @ ELSE @ + 1]
       IN call' =
            IF outcome = "ok"
            THEN AfterPage([asked EXCEPT !.all_tracks =
                               @ \o PageItems(call.total_size,
                                              StartIndex(page_num), page_size)],
                           TRUE)
            ELSE IF outcome = "transient" THEN [asked EXCEPT !.pc = "retry"]
            ELSE AfterPage(asked, FALSE)
    /\ PagesUnchanged

\* lines 371-380: the page is queried once more after a connection error
RetryPage(outcome) ==
    /\ call.pc = "retry"
    /\ LET page_num == call.pages[call.next]
           asked == [call EXCEPT
                        !.requests = Append(@, Request(page_num, outcome = "ok")),
                        !.failed = IF outcome = "ok" THEN @ ELSE @ + 1]
       IN call' =
            IF outcome = "ok"
            THEN AfterPage([asked EXCEPT !.all_tracks =
                               @ \o PageItems(call.total_size,
                                              StartIndex(page_num), page_size)],
                           TRUE)
            ELSE AfterPage(asked, FALSE)
    /\ PagesUnchanged

NextPages ==
    \/ \E metadata \in Metadata : FetchBegin(metadata)
    \/ \E outcome \in {"ok", "transient", "error"} : FetchPage(outcome)
    \/ \E outcome \in {"ok", "error"} : RetryPage(outcome)

SpecPages == InitPages /\ [][NextPages]_vars

(* ============ matching a spoken artist name (SpecFuzzy) ================ *)
(* The requests of one process, each a call fuzzy_match_artist(spoken_name) *)
(* on the globals artist_cache and artist_cache_loaded, kept in call.      *)
(* Names are sequences of letters, so that lower() and the similarity of   *)
(* difflib are computed and not assumed.  ARTIST_MAPPINGS is the table of  *)
(* the code scaled to these names.                                         *)
(***************************************************************************)
MaxName == 2

MaxArtists == 1

MaxRequests == 3

Letters == {"A", "a", "b"}

\* str.lower() on one letter and on a name
LowerLetter(c) == IF c = "A" THEN "a" ELSE c

Lower(name) == [i \in 1..Len(name) |-> LowerLetter(name[i])]

\* the code point of a letter
Ord(c) == IF c = "A" THEN 65 ELSE IF c = "a" THEN 97 ELSE 98

\* what a listener can say
SpokenNames == UNION {[1..n -> Letters] : n \in 1..MaxName}

\* the titles of the artists of the library
ArtistTitles == {<<"A", "b">>, <<"b", "b">>, <<"a">>}

\* the call of MUSIC.searchArtists raises after its retries
ListingFails == [raises |-> TRUE, artists |-> <<>>]

\* what plex_api_call_with_retry(MUSIC.searchArtists) can do: answer a list
\* of artists or raise
Listings ==
    {[raises |-> FALSE, artists |-> artists] :
        artists \in UNION {[1..n -> ArtistTitles] : n \in 0..MaxArtists}}
    \cup {ListingFails}

ARTIST_MAPPINGS == (<<"a", "b">> :> <<"b", "b">>) @@ (<<"a">> :> <<"A", "b">>)

\* the value of manual_match that `if manual_match` does not take: None,
\* and the empty name
None == <<>>

\* mutant: the table is looked up with the name as spoken
ManualMatchAsSpoken(spoken_name) ==
    IF spoken_name \in DOMAIN ARTIST_MAPPINGS
    THEN ARTIST_MAPPINGS[spoken_name] ELSE None

\* ARTIST_MAPPINGS.get(spoken_name.lower())
ManualMatch(spoken_name) ==
    IF Lower(spoken_name) \in DOMAIN ARTIST_MAPPINGS
    THEN ARTIST_MAPPINGS[Lower(spoken_name)] ELSE None

\* SequenceMatcher.find_longest_match on a[alo:ahi] and b[blo:bhi]: the
\* blocks <<i, j, k>> with a[i:i+k] = b[j:j+k], and of them the longest,
\* then the earliest in a, then the earliest in b
Blocks(a, b, alo, ahi, blo, bhi) ==
    {blk \in (alo..(ahi - 1)) \X (blo..(bhi - 1)) \X (1..(ahi - alo)) :
        /\ blk[1] + blk[3] <= ahi
        /\ blk[2] + blk[3] <= bhi
        /\ \A d \in 1..blk[3] : a[blk[1] + d] = b[blk[2] + d]}

LongestMatch(a, b, alo, ahi, blo, bhi) ==
    CHOOSE blk \in Blocks(a, b, alo, ahi, blo, bhi) :
        \A other \in Blocks(a, b, alo, ahi, blo, bhi) :
            \/ blk[3] > other[3]
            \/ blk[3] = other[3] /\ blk[1] < other[1]
            \/ blk[3] = other[3] /\ blk[1] = other[1] /\ blk[2] <= other[2]

\* the sum of the sizes of SequenceMatcher.get_matching_blocks
RECURSIVE Matches(_, _, _, _, _, _)
Matches(a, b, alo, ahi, blo, bhi) ==
    IF Blocks(a, b, alo, ahi, blo, bhi) = {} THEN 0
    ELSE LET blk == LongestMatch(a, b, alo, ahi, blo, bhi) IN
         blk[3] + Matches(a, b, alo, blk[1], blo, blk[2])
                + Matches(a, b, blk[1] + blk[3], ahi, blk[2] + blk[3], bhi)

\* the matches of every artist title with every spoken name
MatchesOf ==
    [x \in ArtistTitles, word \in SpokenNames |->
        Matches(x, word, 0, Len(x), 0, Len(word))]

\* SequenceMatcher.ratio() of a candidate and the word is
\* 2 * Score / Total
Score(x, word) == MatchesOf[x, word]

Total(x, word) == Len(x) + Len(word)

\* ratio() >= cutoff, with cutoff=0.6
Close(x, word) == 10 * Score(x, word) >= 3 * Total(x, word)

\* x < y for two names, as Python compares strings
LexLess(x, y) ==
    \/ \E i \in 1..Min(Len(x), Len(y)) :
          /\ Ord(x[i]) < Ord(y[i])
          /\ \A j \in 1..(i - 1) : x[j] = y[j]
    \/ Len(x) < Len(y) /\ \A j \in 1..Len(x) : x[j] = y[j]

\* (score, x) < (score, y) for the pairs heapq.nlargest compares
Worse(x, y, word) ==
    \/ Score(x, word) * Total(y, word) < Score(y, word) * Total(x, word)
    \/ /\ Score(x, word) * Total(y, word) = Score(y, word) * Total(x, word)
       /\ LexLess(x, y)

\* get_close_matches(word, possibilities, n=1, cutoff=0.6)
get_close_matches(word, possibilities) ==
    LET close == {possibilities[i] : i \in {j \in 1..Len(possibilities) :
                                             Close(possibilities[j], word)}}
    IN IF close = {} THEN <<>>
       ELSE <<CHOOSE x \in close : \A y \in close : ~Worse(x, y, word)>>

\* mutant: the remote listing is issued whatever the flag says
NeedsLoadAlways(artist_cache_loaded) == TRUE

\* `if artist_cache_loaded: return artist_cache` is not taken
NeedsLoad(artist_cache_loaded) == ~artist_cache_loaded

Process ==
    [pc |-> "process", artist_cache |-> <<>>, artist_cache_loaded |-> FALSE,
     requests |-> 0, spoken_name |-> <<>>, result |-> <<>>,
     consulted |-> FALSE, listed |-> FALSE]

InitFuzzy ==
    /\ store = NoQueue
    /\ resp = NoResponse
    /\ inv = [p \in Invocations |-> Idle]
    /\ last = NoLast
    /\ call = Process

\* load_artist_cache(): the process after the call; listing is the outcome
\* of the remote listing, should it be issued
load_artist_cache(listing) ==
    IF ~NeedsLoad(call.artist_cache_loaded)
    THEN [call EXCEPT !.consulted = TRUE, !.listed = FALSE]
    ELSE IF listing.raises
    THEN [call EXCEPT !.consulted = TRUE, !.listed = TRUE]
    ELSE [call EXCEPT !.consulted = TRUE, !.listed = TRUE,
                      !.artist_cache = listing.artists,
                      !.artist_cache_loaded = TRUE]

\* what load_artist_cache(listing) returns
Artists(listing) ==
    IF ~NeedsLoad(call.artist_cache_loaded) THEN call.artist_cache
    ELSE IF listing.raises THEN <<>> ELSE listing.artists

\* fuzzy_match_artist(spoken_name), one request of the process
fuzzy_match_artist(spoken_name, listing) ==
    /\ call.requests < MaxRequests
    /\ LET manual_match == ManualMatch(spoken_name)
           artists == Artists(listing)
           matches == get_close_matches(spoken_name, artists)
           after == IF manual_match # None
                    THEN [call EXCEPT !.consulted = FALSE, !.listed = FALSE,
                                      !.result = manual_match]
                    ELSE [load_artist_cache(listing) EXCEPT
                             !.result = IF artists = <<>> \/ matches = <<>>
                                        THEN spoken_name ELSE matches[1]]
       IN call' = [after EXCEPT !.pc = "matched", !.requests = @ + 1,
                                !.spoken_name = spoken_name]
    /\ UNCHANGED <<store, resp, inv, last>>

NextFuzzy ==
    \E spoken_name \in SpokenNames, listing \in Listings :
        fuzzy_match_artist(spoken_name, listing)

SpecFuzzy == InitFuzzy /\ [][NextFuzzy]_vars

(* ============ serializing a track list (SpecSerialize) ================= *)
(* One call serialize_tracks_parallel(tracks, artist_name) in call: any    *)
(* list of tracks, any set of tracks whose serialize_track returns None,   *)
(* and, without an artist name, any order in which the workers complete.   *)
(***************************************************************************)
\* the lists of up to MaxLen tracks
TrackLists == UNION {[1..n -> Keys] : n \in 0..MaxLen}

\* serialized.sort(key=...) on the descriptors in the order the workers
\* completed them: the sort is stable, so descriptors with the same
\* track_order stay in completion order
RECURSIVE SortCompleted(_, _, _)
SortCompleted(completed, tracks, i) ==
    IF i > Len(tracks) THEN <<>>
    ELSE SelectSeq(completed, LAMBDA k : track_order(tracks, k) = i)
         \o SortCompleted(completed, tracks, i + 1)

InitSerialize ==
    /\ store = NoQueue
    /\ resp = NoResponse
    /\ inv = [p \in Invocations |-> Idle]
    /\ last = NoLast
    /\ call \in {[pc |-> "serialize", tracks |-> tracks, bad |-> bad,
                    cached |-> cached, completed |-> <<>>, result |-> <<>>] :
                  tracks \in TrackLists, bad \in SUBSET Keys,
                  cached \in BOOLEAN}

\* lines 247-254: with an artist name the tracks are serialized in turn
SerializeInTurn ==
    /\ call.pc = "serialize"
    /\ call.cached
    /\ LET serialized == SelectSeq(call.tracks, LAMBDA k : k \notin call.bad) IN
       call' = [call EXCEPT !.pc = "serialized", !.completed = serialized,
                            !.result = serialized]
    /\ UNCHANGED <<store, resp, inv, last>>

\* lines 257-271: without one the worker pool serializes them; completed
\* is the order of as_completed
SerializeParallel ==
    /\ call.pc = "serialize"
    /\ ~call.cached
    /\ \E completed \in Shuffles(SelectSeq(call.tracks,
                                             LAMBDA k : k \notin call.bad)) :
          call' = [call EXCEPT !.pc = "serialized", !.completed = completed,
                               !.result = SortCompleted(completed, call.tracks, 1)]
    /\ UNCHANGED <<store, resp, inv, last>>

NextSerialize == SerializeInTurn \/ SerializeParallel

SpecSerialize == InitSerialize /\ [][NextSerialize]_vars

(* ============ a device playing a queue (SpecDevice) ==================== *)
(* One play request and the playback events of the device that follows     *)
(* its directives, handled one at a time: PlaybackStarted(t) for the track *)
(* it was told to play, PlaybackNearlyFinished(t), PlaybackStarted(u) for  *)
(* the track it was told to enqueue, and so on until a                     *)
(* PlaybackNearlyFinished is answered without a directive.  The media      *)
(* server answers every lookup.  call holds the device: its phase, the     *)
(* token it plays and the tokens it was told to enqueue.                   *)
(***************************************************************************)
\* the device is followed for at most this many enqueued tracks
MaxEnqueued == MaxLen + 1

Device(phase, token, enqueued) ==
    [pc |-> "device", phase |-> phase, token |-> token, enqueued |-> enqueued]

InitDevice ==
    /\ store = NoQueue
    /\ resp = NoResponse
    /\ inv = [p \in Invocations |-> Idle]
    /\ last = NoLast
    /\ call = Device("idle", NoToken, <<>>)

\* the play request (lines 675-717) and the device taking its directive
DevicePlay(tracks, should_shuffle, bad, cached) ==
    /\ call.phase = "idle"
    /\ \E tracks_to_play \in (IF should_shuffle /\ Len(tracks) > 1
                              THEN Shuffles(tracks) ELSE {tracks}) :
          LET directive == PlayMusicDirective(tracks_to_play, TRUE) IN
          /\ store' = put_item(SavedQueue(tracks_to_play, should_shuffle, bad,
                                          cached))
          /\ resp' = [Response("PlayMusic", NoToken, NoError, TRUE, NoQueue,
                               <<>>, TRUE, directive, "playing")
                         EXCEPT !.tracks_to_play = tracks_to_play,
                                !.should_shuffle = should_shuffle,
                                !.resolved = tracks]
          /\ call' = IF directive = NoDirective THEN Device("ended", NoToken, <<>>)
                     ELSE Device("starting", directive.token, <<>>)
    /\ UNCHANGED <<inv, last>>

\* PlaybackStartedHandler.handle for the track the device begins
DeviceStarted ==
    /\ call.phase = "starting"
    /\ LET index == StartedIndex(store, call.token) IN
       /\ store' = ApplyUpdate(store, index)
       /\ resp' = Response("PlaybackStarted", call.token, NoError, TRUE, store,
                           Updates(index), FALSE, NoDirective, "none")
    /\ call' = [call EXCEPT !.phase = "playing"]
    /\ UNCHANGED <<inv, last>>

\* PlaybackNearlyFinishedHandler.handle for the track the device plays,
\* and the device taking the directive, if any
DeviceNearlyFinished ==
    /\ call.phase = "playing"
    /\ Len(call.enqueued) < MaxEnqueued
    /\ LET index == NearlyFinishedIndex(store, call.token)
           directive == NearlyFinishedDirective(store, call.token, TRUE)
       IN
       /\ store' = ApplyUpdate(store, index)
       /\ resp' = Response("PlaybackNearlyFinished", call.token, NoError, TRUE,
                           store, Updates(index), FALSE, directive, "none")
       /\ call' = IF directive = NoDirective
                  THEN [call EXCEPT !.phase = "ended"]
                  ELSE Device("starting", directive.token,
                              Append(call.enqueued, directive.token))
    /\ UNCHANGED <<inv, last>>

NextDevice ==
    \/ \E tracks \in Library, should_shuffle \in BOOLEAN, bad \in WellFormed :
          \E cached \in CachedArtistName(tracks) :
              DevicePlay(tracks, should_shuffle, bad, cached)
    \/ DeviceStarted
    \/ DeviceNearlyFinished

SpecDevice == InitDevice /\ [][NextDevice]_vars /\ WF_vars(NextDevice)

(* ============ one play request (SpecPlay) ============================== *)
(* One play request that resolved a selection, on any record the listener  *)
(* had before: no or one track whose serialization fails, the artist      *)
(* lookup of the first track answering or not, and table.put_item          *)
(* succeeding or raising (save_queue logs the exception and returns); or   *)
(* one play request that returns before it has a selection.                *)
(* call holds what the model drew.                                         *)
(***************************************************************************)
InitPlay ==
    /\ store \in {NoQueue} \cup {q \in SavedQueues : q.current_index < Len(q.tracks)}
    /\ resp = NoResponse
    /\ inv = [p \in Invocations |-> Idle]
    /\ last = NoLast
    /\ call = [pc |-> "request", written |-> FALSE, bad |-> {}]

\* lines 675-717 with save_queue (147-164)
PlayRequest(tracks, should_shuffle, bad, cached, artist_ok, written) ==
    /\ call.pc = "request"
    /\ \E tracks_to_play \in (IF should_shuffle /\ Len(tracks) > 1
                              THEN Shuffles(tracks) ELSE {tracks}) :
          /\ store' = IF written
                      THEN put_item(SavedQueue(tracks_to_play, should_shuffle,
                                               bad, cached))
                      ELSE store
          /\ resp' = [Response("PlayMusic", NoToken, NoError, artist_ok, NoQueue,
                               <<>>, TRUE,
                               PlayMusicDirective(tracks_to_play, artist_ok),
                               IF tracks_to_play # <<>> /\ ~artist_ok
                               THEN "error" ELSE "playing")
                         EXCEPT !.tracks_to_play = tracks_to_play,
                                !.should_shuffle = should_shuffle,
                                !.resolved = tracks]
    /\ call' = [pc |-> "played", written |-> written, bad |-> bad]
    /\ UNCHANGED <<inv, last>>

\* how a play request ends before it has a selection: the media server
\* is not connected (547), no playlist title holds the name (589), the
\* playlist search raises (592), the track search finds nothing (608), the
\* tracks found are all filtered out (604), no album (630) or artist (669)
\* is found, or no slot has a value (672)
NoSelection ==
    {"server_unavailable", "playlist_not_found", "playlist_error",
     "track_not_found", "track_filtered", "album_not_found",
     "artist_not_found", "no_slot"}

\* mutant: the handler saves its empty tracks_to_play before it returns
ReachesSaveAlways(outcome) == TRUE

\* whether the handler gets to save_queue (686): each of the endings above
\* is a return statement before it
ReachesSave(outcome) == outcome \notin NoSelection

\* a play request that ends as outcome says, tracks_to_play being []
PlayRequestReturns(outcome) ==
    /\ call.pc = "request"
    /\ store' = IF ReachesSave(outcome)
                THEN put_item(SavedQueue(<<>>, FALSE, {}, FALSE))
                ELSE store
    /\ resp' = Response("PlayMusic", NoToken, NoError, TRUE, NoQueue, <<>>,
                        ReachesSave(outcome), NoDirective, outcome)
    /\ call' = [pc |-> "returned", written |-> ReachesSave(outcome), bad |-> {}]
    /\ UNCHANGED <<inv, last>>

\* the sets of tracks whose serialization fails, as drawn by SpecPlay:
\* none, or one track
Dropped == {{}} \cup {{key} : key \in Keys}

NextPlay ==
    /\ call.pc = "request"
    /\ \/ \E tracks \in Library, should_shuffle \in BOOLEAN, bad \in Dropped,
             artist_ok \in BOOLEAN, written \in BOOLEAN :
              \E cached \in CachedArtistName(tracks) :
                  PlayRequest(tracks, should_shuffle, bad, cached, artist_ok,
                              written)
       \/ \E outcome \in NoSelection : PlayRequestReturns(outcome)

SpecPlay == InitPlay /\ [][NextPlay]_vars

(* ---------------------------------------------------------------------- *)
(* SpecSkip: two Next commands and the playback events the device sends     *)
(* between them.  call remembers what the first command read and emitted,   *)
(* and which events were handled since.                                     *)
(* ---------------------------------------------------------------------- *)

MaxBetween == 2

Skip(pc, first, read, started, wrote, between) ==
    [pc |-> pc, first |-> first, read |-> read, started |-> started,
     wrote |-> wrote, between |-> between]

InitSkip ==
    /\ store \in {q \in SavedQueues : q.current_index < Len(q.tracks)}
    /\ resp = NoResponse
    /\ inv = [p \in Invocations |-> Idle]
    /\ last = NoLast
    /\ call = Skip("playing", NoDirective, NoQueue, FALSE, FALSE, 0)

\* the first Next command
SkipFirst(loaded) ==
    /\ call.pc = "playing"
    /\ NextIntentHandle(loaded)
    /\ call' = Skip("skipped", NextDirective(store, loaded), store, FALSE,
                    FALSE, 0)
    /\ UNCHANGED <<inv, last>>

\* an event handled between the two commands
SkipBetween(started, wrote) ==
    call' = [call EXCEPT !.started = @ \/ started, !.wrote = @ \/ wrote,
                         !.between = @ + 1]

SkipStarted(current_token) ==
    /\ call.pc = "skipped"
    /\ call.between < MaxBetween
    /\ PlaybackStartedHandle(current_token)
    /\ SkipBetween(TRUE, StartedIndex(store, current_token) # NotFound)
    /\ UNCHANGED <<inv, last>>

SkipNearlyFinished(current_token, loaded) ==
    /\ call.pc = "skipped"
    /\ call.between < MaxBetween
    /\ PlaybackNearlyFinishedHandle(current_token, loaded)
    /\ SkipBetween(FALSE, NearlyFinishedIndex(store, current_token) # NotFound)
    /\ UNCHANGED <<inv, last>>

SkipFailed(error, loaded) ==
    /\ call.pc = "skipped"
    /\ call.between < MaxBetween
    /\ PlaybackFailedHandle(error, loaded)
    /\ SkipBetween(FALSE, FailedIndex(store, error) # NotFound)
    /\ UNCHANGED <<inv, last>>

\* the second Next command
SkipSecond(loaded) ==
    /\ call.pc = "skipped"
    /\ NextIntentHandle(loaded)
    /\ call' = [call EXCEPT !.pc = "skipped twice"]
    /\ UNCHANGED <<inv, last>>

NextSkip ==
    \/ \E loaded \in BOOLEAN : SkipFirst(loaded)
    \/ \E current_token \in Keys : SkipStarted(current_token)
    \/ \E current_token \in Keys, loaded \in BOOLEAN :
          SkipNearlyFinished(current_token, loaded)
    \/ \E error \in ErrorTypes \cup {NoError}, loaded \in BOOLEAN :
          SkipFailed(error, loaded)
    \/ \E loaded \in BOOLEAN : SkipSecond(loaded)

SpecSkip == InitSkip /\ [][NextSkip]_vars

(* ---------------------------------------------------------------------- *)
(* SpecFail: the device reports SERVICE_UNAVAILABLE again and again on a    *)
(* queue nothing else touches.  call counts the failures handled and the    *)
(* recoveries, the failures that moved the index.                           *)
(* ---------------------------------------------------------------------- *)

MaxFailures == MaxLen + 2

InitFail ==
    /\ store \in {q \in SavedQueues : q.current_index < Len(q.tracks)}
    /\ resp = NoResponse
    /\ inv = [p \in Invocations |-> Idle]
    /\ last = NoLast
    /\ call = [pc |-> "failing", start |-> store.current_index, failures |-> 0,
               recoveries |-> 0, directives |-> 0]

FailAgain(error, loaded) ==
    /\ call.failures < MaxFailures
    /\ IsServiceUnavailable(error)
    /\ PlaybackFailedHandle(error, loaded)
    /\ call' = [call EXCEPT
                  !.failures = @ + 1,
                  !.recoveries =
                      IF FailedIndex(store, error) # NotFound THEN @ + 1 ELSE @,
                  !.directives =
                      IF FailedDirective(store, error, loaded) # NoDirective
                      THEN @ + 1 ELSE @]
    /\ UNCHANGED <<inv, last>>

NextFail == \E error \in ErrorTypes, loaded \in BOOLEAN : FailAgain(error, loaded)

SpecFail == InitFail /\ [][NextFail]_vars

(* ---------------------------------------------------------------------- *)
(* SpecShuffle: a ShuffleOn command and a PlaybackStarted or PlaybackFailed *)
(* event interleaved on a saved queue, which can leave a record whose       *)
(* current_index is past the end of its tracks, and then a ShuffleOn        *)
(* command handled from get_queue to its response.                          *)
(* ---------------------------------------------------------------------- *)

Shuffler == 1
Reporter == 2
Shuffled == [pc |-> "shuffled"]

\* the steps of the two interleaved invocations
ShuffleRace ==
    /\ call = NoCall
    /\ \/ ShuffleOnGet(Shuffler, last)
       \/ Put(Shuffler)
       \/ \E current_token \in Keys : StartedGet(Reporter, current_token, last)
       \/ \E error \in ErrorTypes : FailedGet(Reporter, error, last)
       \/ Update(Reporter)

\* the ShuffleOn command handled on the record they leave
ShuffleOnAfter ==
    /\ call = NoCall
    /\ ShuffleOnIntentHandle
    /\ call' = Shuffled
    /\ UNCHANGED <<inv, last>>

NextShuffle ==
    \/ ShuffleRace
    \/ ShuffleOnAfter

SpecShuffle == InitRecon /\ [][NextShuffle]_vars

(* ============================== claims ================================= *)
\* a is the first 0-based position of tracks whose key equals token
IsFirstPosition(tracks, token, a) ==
    /\ a \in 0..(Len(tracks) - 1)
    /\ tracks[a + 1] = token
    /\ \A j \in 0..(a - 1) : tracks[j + 1] # token

InQueue(tracks, token) == \E i \in 1..Len(tracks) : tracks[i] = token

\* the invocation recorded in resp read a queue with at least one track
ReadQueue == resp.queue_data # NoQueue /\ resp.queue_data.tracks # <<>>

\* a is the position PlaybackNearlyFinished works from: the token's first
\* position, or the stored index when the token is not in the queue
IsActualIndex(a) ==
    \/ IsFirstPosition(resp.queue_data.tracks, resp.token, a)
    \/ /\ ~InQueue(resp.queue_data.tracks, resp.token)
       /\ a = resp.queue_data.current_index

Enqueue(key, expected) ==
    [behavior |-> "ENQUEUE", token |-> key, expected_previous_token |-> expected]

Replace(key) ==
    [behavior |-> "REPLACE_ALL", token |-> key,
     expected_previous_token |-> NoToken]

\* PlaybackNearlyFinished read a queue in which the token's position a
\* differs from the stored index
C1_Case(a) ==
    /\ resp.handler = "PlaybackNearlyFinished"
    /\ ReadQueue
    /\ IsFirstPosition(resp.queue_data.tracks, resp.token, a)
    /\ a # resp.queue_data.current_index

\* C1 as stated: PlaybackNearlyFinished(token) with token at position a and
\* stored index s # a writes current_index := a and, when a + 1 < len(tracks),
\* emits the enqueue directive for tracks[a + 1].
C1_EnqueuesAfterToken ==
    \A a \in 0..MaxLen :
        C1_Case(a) =>
            /\ resp.updates = <<a>>
            /\ store = [resp.queue_data EXCEPT !.current_index = a]
            /\ (a + 1 < Len(resp.queue_data.tracks) =>
                   resp.directive =
                       Enqueue(resp.queue_data.tracks[a + 2], resp.token))

\* C1 amended: PlaybackNearlyFinished(token) with token at position a and
\* stored index s # a writes current_index := a; when a + 1 < len(tracks) it
\* emits the enqueue directive for tracks[a + 1] if the media server returns
\* that track and no directive if it does not; it never emits a directive
\* when a + 1 >= len(tracks).
C1_EnqueuesAfterTokenWhenLoaded ==
    \A a \in 0..MaxLen :
        C1_Case(a) =>
            /\ resp.updates = <<a>>
            /\ store = [resp.queue_data EXCEPT !.current_index = a]
            /\ resp.directive =
                   IF a + 1 < Len(resp.queue_data.tracks) /\ resp.loaded
                   THEN Enqueue(resp.queue_data.tracks[a + 2], resp.token)
                   ELSE NoDirective

\* stored index 0, token at position 1 of three tracks: tracks[2] is
\* enqueued (not tracks[1]) and the store is left at index 1
C1_Witness ==
    /\ C1_Case(1)
    /\ resp.queue_data.current_index = 0
    /\ Len(resp.queue_data.tracks) = 3
    /\ resp.queue_data.tracks[3] # resp.queue_data.tracks[2]
    /\ resp.directive = Enqueue(resp.queue_data.tracks[3], resp.token)
    /\ store.current_index = 1

\* C3: after PlaybackStarted(token) on a queue that holds token, the stored
\* current_index is the first position of token, the track list is as
\* read, and the store was written exactly when that position differs from
\* the index read.
C3_StartedSetsIndex ==
    (resp.handler = "PlaybackStarted" /\ ReadQueue) =>
        \A a \in 0..MaxLen :
            IsFirstPosition(resp.queue_data.tracks, resp.token, a) =>
                /\ store = [resp.queue_data EXCEPT !.current_index = a]
                /\ resp.updates =
                       IF a # resp.queue_data.current_index THEN <<a>> ELSE <<>>

\* the token occurs twice in the queue and the index moved to its first
\* position
C3_Witness ==
    /\ resp.handler = "PlaybackStarted"
    /\ ReadQueue
    /\ \E a, b \in 0..MaxLen :
          /\ a < b
          /\ b < Len(resp.queue_data.tracks)
          /\ IsFirstPosition(resp.queue_data.tracks, resp.token, a)
          /\ resp.queue_data.tracks[b + 1] = resp.token
          /\ resp.queue_data.current_index # a
          /\ resp.updates = <<a>>
          /\ store.current_index = a

\* C5: PlaybackStarted(token) with a token that matches no track of the
\* stored queue, or with no stored queue, writes nothing: the record is
\* the one it read.
C5_StartedNoMatchNoWrite ==
    (/\ resp.handler = "PlaybackStarted"
     /\ \/ resp.queue_data = NoQueue
        \/ ~InQueue(resp.queue_data.tracks, resp.token)) =>
        /\ resp.updates = <<>>
        /\ ~resp.put
        /\ store = resp.queue_data

\* a foreign token arrived while the queue stood at index 1
C5_Witness ==
    /\ resp.handler = "PlaybackStarted"
    /\ ReadQueue
    /\ ~InQueue(resp.queue_data.tracks, resp.token)
    /\ store.current_index = 1

\* C6: the only index PlaybackNearlyFinished writes is the position of the
\* reported token; the stored index is left one before the track it
\* enqueues, never on it.
C6_NearlyFinishedNeverAdvances ==
    resp.handler = "PlaybackNearlyFinished" =>
        /\ \A i \in 1..Len(resp.updates) :
              IsFirstPosition(resp.queue_data.tracks, resp.token, resp.updates[i])
        /\ Len(resp.updates) <= 1
        /\ store = IF resp.updates = <<>> THEN resp.queue_data
                   ELSE [resp.queue_data EXCEPT !.current_index = resp.updates[1]]
        /\ resp.directive # NoDirective =>
              /\ store.current_index + 1 < Len(store.tracks)
              /\ resp.directive.token = store.tracks[store.current_index + 2]

\* the handler corrected the index and enqueued the following track
C6_Witness ==
    /\ resp.handler = "PlaybackNearlyFinished"
    /\ resp.updates # <<>>
    /\ resp.directive # NoDirective

\* C7: PlaybackNearlyFinished whose actual index + 1 >= len(tracks) emits
\* no directive.
C7_EndOfQueueNoDirective ==
    (resp.handler = "PlaybackNearlyFinished" /\ ReadQueue) =>
        \A a \in 0..MaxLen :
            (IsActualIndex(a) /\ a + 1 >= Len(resp.queue_data.tracks)) =>
                resp.directive = NoDirective

\* the token of the last of several tracks was reported and the media
\* server was reachable
C7_Witness ==
    /\ resp.handler = "PlaybackNearlyFinished"
    /\ ReadQueue
    /\ Len(resp.queue_data.tracks) >= 2
    /\ IsFirstPosition(resp.queue_data.tracks, resp.token,
                       Len(resp.queue_data.tracks) - 1)
    /\ resp.loaded
    /\ resp.directive = NoDirective

\* C8: every directive of PlaybackNearlyFinished(token) is an ENQUEUE whose
\* expected-previous token is the event's token and whose token is the key
\* of tracks[actual index + 1]; Next, Previous and PlaybackFailed emit only
\* REPLACE_ALL directives.
C8_DirectiveKinds ==
    /\ (resp.handler = "PlaybackNearlyFinished" /\ resp.directive # NoDirective) =>
          /\ ReadQueue
          /\ \E a \in 0..MaxLen :
                /\ IsActualIndex(a)
                /\ a + 1 < Len(resp.queue_data.tracks)
                /\ resp.directive =
                       Enqueue(resp.queue_data.tracks[a + 2], resp.token)
    /\ (resp.handler \in {"Next", "Previous", "PlaybackFailed"}
        /\ resp.directive # NoDirective) =>
          /\ resp.directive.behavior = "REPLACE_ALL"
          /\ resp.directive.expected_previous_token = NoToken

\* an enqueue directive whose expected-previous token is not the key of the
\* track at the stored index
C8_Witness ==
    /\ resp.handler = "PlaybackNearlyFinished"
    /\ resp.directive # NoDirective
    /\ resp.directive.behavior = "ENQUEUE"
    /\ resp.directive.expected_previous_token = resp.token
    /\ resp.queue_data.tracks[resp.queue_data.current_index + 1] # resp.token

C9_Case ==
    /\ resp.handler = "PlaybackFailed"
    /\ resp.error = <<"MEDIA", "ERROR", "SERVICE", "UNAVAILABLE">>
    /\ ReadQueue

\* C9 as stated: PlaybackFailed (SERVICE_UNAVAILABLE) with a next track
\* writes current_index + 1 and emits a replace directive for that track;
\* without a next track it emits nothing and writes nothing.
C9_FailedAdvancesAndReplaces ==
    C9_Case =>
        LET c == resp.queue_data.current_index IN
        IF c + 1 < Len(resp.queue_data.tracks)
        THEN /\ resp.updates = <<c + 1>>
             /\ store = [resp.queue_data EXCEPT !.current_index = c + 1]
             /\ resp.directive = Replace(resp.queue_data.tracks[c + 2])
        ELSE /\ resp.updates = <<>>
             /\ store = resp.queue_data
             /\ resp.directive = NoDirective

\* C9 amended: PlaybackFailed (SERVICE_UNAVAILABLE) with a next track writes
\* current_index + 1 and emits a replace directive for that track if the
\* media server returns it, and no directive if it does not; without a
\* next track it emits nothing and writes nothing.
C9_FailedAdvancesAndReplacesWhenLoaded ==
    C9_Case =>
        LET c == resp.queue_data.current_index IN
        IF c + 1 < Len(resp.queue_data.tracks)
        THEN /\ resp.updates = <<c + 1>>
             /\ store = [resp.queue_data EXCEPT !.current_index = c + 1]
             /\ resp.directive = IF resp.loaded
                                 THEN Replace(resp.queue_data.tracks[c + 2])
                                 ELSE NoDirective
        ELSE /\ resp.updates = <<>>
             /\ store = resp.queue_data
             /\ resp.directive = NoDirective

\* a failure at index 0 of a longer queue moved the store to index 1 and
\* replaced the playing track
C9_Witness ==
    /\ C9_Case
    /\ resp.queue_data.current_index = 0
    /\ store.current_index = 1
    /\ resp.directive = Replace(resp.queue_data.tracks[2])

\* C10: a PlaybackFailed whose error type is not SERVICE_UNAVAILABLE, or that
\* has no error object, leaves the store as it was and emits no directive.
C10_OtherErrorsIgnored ==
    [][(/\ resp'.handler = "PlaybackFailed"
        /\ resp'.error # <<"MEDIA", "ERROR", "SERVICE", "UNAVAILABLE">>) =>
          /\ store' = store
          /\ resp'.updates = <<>>
          /\ ~resp'.put
          /\ resp'.directive = NoDirective]_vars

\* a failure of another class was handled while a next track was there
C10_Witness ==
    /\ resp.handler = "PlaybackFailed"
    /\ resp.error = <<"MEDIA", "ERROR", "INTERNAL", "SERVER", "ERROR">>
    /\ resp.loaded
    /\ store # NoQueue
    /\ store.current_index + 1 < Len(store.tracks)

\* C2: 0 <= current_index in every reachable state, and no write of a
\* reconciliation handler (PlaybackStarted, PlaybackNearlyFinished,
\* PlaybackFailed) leaves the store with current_index >= len(tracks),
\* under any interleaving of the invocations.
C2_IndexInRange ==
    [][/\ store' # NoQueue => store'.current_index >= 0
       /\ \A p \in Invocations :
             (inv[p].pc = "update" /\ inv'[p].pc = "idle") =>
                 store'.current_index < Len(store'.tracks)]_vars

\* every invocation has completed, the latest to begin was a
\* PlaybackStarted and its token is in the queue
C4_Case ==
    /\ Quiescent
    /\ last.started
    /\ InQueue(store.tracks, last.token)

\* C4 as stated: on an unchanged track list, if a PlaybackStarted(token)
\* with token in the queue is the last invocation to begin, then once all
\* invocations have completed the stored current_index is a position of
\* token.
C4_StartedAuthoritative ==
    C4_Case =>
        /\ store.current_index < Len(store.tracks)
        /\ store.tracks[store.current_index + 1] = last.token

\* C4 amended: on an unchanged track list, if a PlaybackStarted(token) with
\* token in the queue is the last invocation to begin and every other
\* invocation had completed when it read the store, then once it has
\* completed the stored current_index is a position of token.
C4_StartedAloneAuthoritative ==
    (C4_Case /\ last.alone) =>
        /\ store.current_index < Len(store.tracks)
        /\ store.tracks[store.current_index + 1] = last.token

\* a PlaybackStarted that began after all others had completed moved the
\* index to its token
C4_Witness ==
    /\ C4_Case
    /\ last.alone
    /\ last.read # store.current_index
    /\ store.tracks[store.current_index + 1] = last.token

\* C11: Next and Previous never write the store, whatever their outcome
\* (no queue, boundary reported, track load failure, directive emitted):
\* the record is the same after the invocation as before it.
C11_NavigationNeverWrites ==
    [][resp'.handler \in {"Next", "Previous"} =>
          /\ store' = store
          /\ resp'.queue_data = store
          /\ resp'.updates = <<>>
          /\ ~resp'.put]_vars

\* Next answered with a replace directive for the following track and the
\* stored index still names the track before it
C11_Witness ==
    /\ resp.handler = "Next"
    /\ resp.directive # NoDirective
    /\ store = resp.queue_data
    /\ resp.directive.token = store.tracks[store.current_index + 2]

\* C12, for requests whose track lookup succeeds: on a queue of n tracks at
\* stored index c, Next emits a replace directive for tracks[c+1] exactly
\* when c+1 is in [0, n) and Previous one for tracks[c-1] exactly when c-1 is
\* in [0, n); when the target is outside [0, n) the handler reports a
\* boundary condition and emits no directive.
C12_NavigationTargets ==
    (resp.handler \in {"Next", "Previous"} /\ ReadQueue /\ resp.loaded) =>
        LET tracks == resp.queue_data.tracks
            target == IF resp.handler = "Next"
                      THEN resp.queue_data.current_index + 1
                      ELSE resp.queue_data.current_index - 1
        IN IF target \in 0..(Len(tracks) - 1)
           THEN resp.directive = Replace(tracks[target + 1])
           ELSE /\ resp.directive = NoDirective
                /\ resp.speech \in {"end_of_queue", "beginning_of_queue"}

\* C13: ShuffleOn on a queue with 0 <= current_index < len(tracks) stores a
\* record whose tracks are a permutation of the tracks read (same length,
\* same multiset of descriptors), whose first track is the one previously
\* at current_index, with current_index = 0 and shuffle = TRUE.
C13_ShuffleOnPermutes ==
    (/\ resp.handler = "ShuffleOn"
     /\ ReadQueue
     /\ resp.queue_data.current_index \in 0..(Len(resp.queue_data.tracks) - 1)) =>
        /\ resp.put
        /\ Len(store.tracks) = Len(resp.queue_data.tracks)
        /\ \A key \in Keys :
              Count(store.tracks, key) = Count(resp.queue_data.tracks, key)
        /\ store.tracks[1] =
               resp.queue_data.tracks[resp.queue_data.current_index + 1]
        /\ store.current_index = 0
        /\ store.shuffle

\* C14: a play request that saves a queue stores a record whose tracks are
\* exactly the list it resolved, with current_index = 0 and shuffle equal to
\* the request's shuffle flag, whatever the record was before.
C14_PlayStoresResolvedList ==
    (resp.handler = "PlayMusic" /\ resp.put) =>
        /\ store # NoQueue
        /\ store.tracks = resp.tracks_to_play
        /\ store.current_index = 0
        /\ store.shuffle = resp.should_shuffle

\* C15: update_queue_index(i) on an existing record changes only
\* current_index, which becomes i (tracks and shuffle are as before), and
\* applying it to a record whose current_index is already i, as the second
\* of two equal updates does, leaves the record as it is.
C15_UpdateIndexOnlyIndex ==
    [][\A p \in Invocations :
          (inv[p].pc = "update" /\ inv'[p].pc = "idle" /\ store # NoQueue) =>
              /\ store' = [tracks |-> store.tracks,
                           current_index |-> inv[p].index,
                           shuffle |-> store.shuffle]
              /\ (store.current_index = inv[p].index => store' = store)]_vars

\* two PlaybackStarted invocations read index last.read and decided on the
\* same update; one has applied it to a shuffled queue and the other is
\* about to apply it again
C15_Witness ==
    \E p \in Invocations :
        /\ inv[p].pc = "update"
        /\ inv[p].index = store.current_index
        /\ last.started
        /\ last.read # store.current_index
        /\ store.shuffle
        /\ Len(store.tracks) > 1

\* C16: whenever a record exists in the store its tracks list is
\* non-empty; no play request stores a record with an empty tracks list.
C16_StoredTracksNonEmpty ==
    store # NoQueue => store.tracks # <<>>

\* C17: every stored queue has pairwise-distinct track keys, after every
\* play request and after every reshuffle.
C17_StoredKeysDistinct ==
    store # NoQueue =>
        \A i, j \in 1..Len(store.tracks) :
            i # j => store.tracks[i] # store.tracks[j]

\* the call of plex_api_call_with_retry has returned or raised
RetryDone == call.pc \in {"returned", "raised"}

\* C18, at every moment of a call: func has been called at most max_retries
\* times, every call but the latest failed with SSLError, ConnectionError
\* or Timeout, and a call that succeeded is the latest, ended the loop and
\* gave the result returned.
C18_Bounded ==
    /\ Len(call.calls) <= call.max_retries
    /\ \A i \in 1..(Len(call.calls) - 1) :
          call.calls[i].type \in {"SSLError", "ConnectionError", "Timeout"}
    /\ \A i \in 1..Len(call.calls) :
          call.calls[i].type = "ok" =>
              /\ i = Len(call.calls)
              /\ call.pc = "returned"
              /\ call.result = call.calls[i]
    /\ call.pc = "returned" =>
          /\ call.calls # <<>>
          /\ call.result = call.calls[Len(call.calls)]
          /\ call.result.type = "ok"

\* C18: plex_api_call_with_retry calls func at most max_retries times,
\* returns the result of the first successful attempt without a further
\* call, makes a further attempt only after a transient failure, and
\* always terminates.
C18_RetryBoundedAndTerminates == []C18_Bounded /\ <>RetryDone

\* the third of three allowed attempts succeeded after two transient
\* failures
C18_Witness ==
    /\ call.pc = "returned"
    /\ call.max_retries = 3
    /\ Len(call.calls) = 3
    /\ call.result = [type |-> "ok", attempt |-> 2]

\* C19: when all max_retries attempts fail transiently the call raises
\* the failure of the last attempt; an error that is not transient is
\* raised from the attempt that produced it, with no further call and no
\* delay; nothing is swallowed or wrapped.
C19_RaisesLastFailure ==
    /\ call.pc = "raised" =>
          LET n == Len(call.calls) IN
          /\ n >= 1
          /\ call.result = call.calls[n]
          /\ call.result.attempt = n - 1
          /\ call.result.type # "ok"
          /\ Len(call.sleeps) = n - 1
          /\ call.result.type \in {"SSLError", "ConnectionError", "Timeout"} =>
                n = call.max_retries
    /\ (/\ Len(call.calls) = call.max_retries
        /\ \A i \in 1..Len(call.calls) :
              call.calls[i].type \in {"SSLError", "ConnectionError", "Timeout"}) =>
          call.pc = "raised"
    /\ \A i \in 1..Len(call.calls) :
          call.calls[i].type \in {"NotFound", "BadRequest"} =>
              /\ i = Len(call.calls)
              /\ call.pc = "raised"

\* three attempts failed with a timeout after an SSL error, and the
\* timeout of the last attempt was raised
C19_Witness ==
    /\ call.pc = "raised"
    /\ call.max_retries = 3
    /\ Len(call.calls) = 3
    /\ call.calls[1].type = "SSLError"
    /\ call.calls[3].type = "Timeout"
    /\ call.result = [type |-> "Timeout", attempt |-> 2]

\* the filter dropped the track: it is in the list given and not in the
\* list returned
Excluded(track) ==
    \A j \in 1..Len(call.result) : call.result[j] # track

\* C20: the rating filter excludes a track if and only if it carries an
\* explicit rating equal to exactly 2.0: a track rated r on the 0..10 scale
\* is excluded iff r = 2.
C20_ExcludesExactlyOneStar ==
    call.pc = "filtered" =>
        \A i \in 1..Len(call.tracks) :
            \A r \in 0..10 :
                call.tracks[i].userRating = [value |-> r] =>
                    (Excluded(call.tracks[i]) <=> r = 2)

\* C21: the rating filter returns a subsequence of its input in the
\* original relative order and keeps every track that is unrated, rated 0,
\* rated >= 4, or whose rating lookup raises.
C21_FilterKeepsInOrder ==
    call.pc = "filtered" =>
        /\ \A j \in 1..Len(call.result) :
              /\ call.result[j].key \in 1..Len(call.tracks)
              /\ call.result[j] = call.tracks[call.result[j].key]
        /\ \A j \in 1..(Len(call.result) - 1) :
              call.result[j].key < call.result[j + 1].key
        /\ \A i \in 1..Len(call.tracks) :
              (\/ call.tracks[i].userRating \in {NoRating, RatingError}
               \/ \E r \in {0} \cup 4..10 :
                     call.tracks[i].userRating = [value |-> r]) =>
                  ~Excluded(call.tracks[i])

\* ratings [0, 2, error]: the first and the unreadable third track are
\* kept, in that order
C21_Witness ==
    /\ call.pc = "filtered"
    /\ Len(call.tracks) = 3
    /\ call.tracks[1].userRating = [value |-> 0]
    /\ call.tracks[2].userRating = [value |-> 2]
    /\ call.tracks[3].userRating = RatingError
    /\ call.result = <<call.tracks[1], call.tracks[3]>>

\* the tracks of a list without those whose key occurs earlier in it
RECURSIVE FirstOccurrences(_)
FirstOccurrences(tracks) ==
    IF tracks = <<>> THEN <<>>
    ELSE LET front == FirstOccurrences(SubSeq(tracks, 1, Len(tracks) - 1))
             track == tracks[Len(tracks)]
         IN IF \E j \in 1..Len(front) : front[j].key = track.key
            THEN front ELSE Append(front, track)

\* the tracks of a list that are not rated one star
NotOneStar(tracks) ==
    SelectSeq(tracks, LAMBDA t : t.userRating # [value |-> 2])

\* C22: for an artist request the resolved queue is the first MAX_TRACKS
\* entries of filter(dedup-by-key(full artist track list)): each key once,
\* min(MAX_TRACKS, number of unique non-1-star tracks) entries.
C22_ArtistDedupBeforeCap ==
    (call.pc \in {"selected", "saved"} /\ call.kind = "artist") =>
        LET expected == NotOneStar(FirstOccurrences(call.tracks)) IN
        /\ Len(call.result) = IF Len(expected) < MAX_TRACKS
                              THEN Len(expected) ELSE MAX_TRACKS
        /\ call.result = SubSeq(expected, 1, Len(call.result))

\* C23: for every request kind the stored queue has at most MAX_TRACKS
\* tracks: album and playlist selections are the filtered list truncated
\* to MAX_TRACKS, an artist selection has at most MAX_TRACKS tracks, and a
\* track request resolves to exactly one track.
C23_QueueAtMostMaxTracks ==
    /\ call.pc \in {"selected", "saved"} =>
          /\ Len(call.result) <= MAX_TRACKS
          /\ call.kind \in {"album", "playlist"} =>
                LET filtered == NotOneStar(call.tracks) IN
                call.result = SubSeq(filtered, 1, IF Len(filtered) < MAX_TRACKS
                                                  THEN Len(filtered)
                                                  ELSE MAX_TRACKS)
          /\ call.kind = "track" => Len(call.result) = 1
    /\ call.pc = "saved" =>
          /\ HasTracks(store) => Len(store.tracks) <= MAX_TRACKS
          /\ store # NoQueue
          /\ Len(store.tracks) <= Len(call.result)

\* a playlist with more passing tracks than MAX_TRACKS is stored with
\* exactly MAX_TRACKS tracks
C23_Witness ==
    /\ call.pc = "saved"
    /\ call.kind = "playlist"
    /\ Len(NotOneStar(call.tracks)) > MAX_TRACKS
    /\ Len(call.tracks) > Len(NotOneStar(call.tracks))
    /\ Len(store.tracks) = MAX_TRACKS

\* C24 as stated: for every playlist larger than MAX_TRACKS, with the size
\* metadata available and no failed fetch, the whole playlist is never
\* enumerated: only the chosen pages are queried and fewer raw tracks are
\* fetched than the playlist holds.
C24_LargePlaylistNeverWhole ==
    (/\ call.pc = "done"
     /\ call.total_size > MAX_TRACKS
     /\ call.metadata # "raises"
     /\ call.failed = 0) =>
        /\ ~call.full
        /\ Len(call.all_tracks) < call.total_size
        /\ \A r \in 1..Len(call.requests) :
              \E n \in 1..Len(call.pages) : call.requests[r].page = call.pages[n]

\* C24: the same for every playlist larger than 2 * MAX_TRACKS, the number
\* of raw tracks the selector gathers.
C24_PlaylistOverTargetNeverWhole ==
    (/\ call.pc = "done"
     /\ call.total_size > 2 * MAX_TRACKS
     /\ call.metadata # "raises"
     /\ call.failed = 0) =>
        /\ ~call.full
        /\ Len(call.all_tracks) < call.total_size
        /\ \A r \in 1..Len(call.requests) :
              \E n \in 1..Len(call.pages) : call.requests[r].page = call.pages[n]

\* a playlist one track over the target is fetched by pages that hold
\* fewer tracks than it
C24_Witness ==
    /\ call.pc = "done"
    /\ call.total_size = 2 * MAX_TRACKS + 1
    /\ call.metadata = "leafCount"
    /\ call.failed = 0
    /\ ~call.full
    /\ Len(call.requests) = Len(call.pages)
    /\ Len(call.all_tracks) \in 1..(call.total_size - 1)

\* C25: with shuffle requested and more than one resolved track the stored
\* queue is a permutation of the resolved list (same length, same number of
\* copies of every key); with shuffle not requested, or with a single
\* track, the stored order is exactly the resolved order.
C25_ShufflePermutesElseKeepsOrder ==
    (resp.handler = "PlayMusic" /\ resp.put) =>
        /\ store # NoQueue
        /\ Len(store.tracks) = Len(resp.resolved)
        /\ \A key \in Keys :
              Count(store.tracks, key) = Count(resp.resolved, key)
        /\ (~resp.should_shuffle \/ Len(resp.resolved) <= 1) =>
              store.tracks = resp.resolved

\* C26: if the lower-cased spoken name is a key of ARTIST_MAPPINGS,
\* fuzzy_match_artist returns the mapped name without calling
\* load_artist_cache or issuing the listing, whatever the cache holds.
C26_OverrideWins ==
    (call.pc = "matched" /\ Lower(call.spoken_name) \in DOMAIN ARTIST_MAPPINGS) =>
        /\ call.result = ARTIST_MAPPINGS[Lower(call.spoken_name)]
        /\ ~call.consulted
        /\ ~call.listed

\* the cache holds the spoken name itself, which is not lower case, and
\* the name returned is the mapped one
C26_Witness ==
    /\ call.pc = "matched"
    /\ call.artist_cache_loaded
    /\ \E i \in 1..Len(call.artist_cache) : call.artist_cache[i] = call.spoken_name
    /\ call.spoken_name # Lower(call.spoken_name)
    /\ Lower(call.spoken_name) \in DOMAIN ARTIST_MAPPINGS
    /\ call.result = ARTIST_MAPPINGS[Lower(call.spoken_name)]
    /\ call.result # call.spoken_name

\* C29: the artist cache is populated at most once per process: once
\* artist_cache_loaded is set no later fuzzy match issues the remote
\* listing and the cache never changes; a failed load leaves the flag unset
\* and the cache unchanged, and the next request that is not an override
\* issues the listing again.
C29_CacheLoadedOnce ==
    [][/\ call.artist_cache_loaded =>
             /\ call'.artist_cache_loaded
             /\ call'.artist_cache = call.artist_cache
             /\ ~call'.listed
       /\ ~call.artist_cache_loaded =>
             /\ call'.consulted => call'.listed
             /\ ~call'.artist_cache_loaded => call'.artist_cache = call.artist_cache
             /\ call'.artist_cache_loaded =>
                   call'.listed /\ call.artist_cache = <<>>]_vars

\* a request that consulted the loaded cache without a listing
C29_Witness ==
    /\ call.pc = "matched"
    /\ call.requests = MaxRequests
    /\ call.artist_cache_loaded
    /\ call.artist_cache # <<>>
    /\ call.consulted
    /\ ~call.listed
    /\ call.result # call.spoken_name

\* C27: serialize_tracks_parallel returns the descriptors in the input
\* track order, for every completion order of the worker pool and every
\* input list, also one that holds a key more than once or from which
\* failed tracks were dropped.
C27_SerializedInInputOrder ==
    call.pc = "serialized" =>
        call.result = SelectSeq(call.tracks, LAMBDA k : k \notin call.bad)

\* the requests of a call that were answered
Fetched(requests) == SelectSeq(requests, LAMBDA r : r.ok)

\* C28: for a playlist fetched by pages, the pages fetched are pairwise
\* distinct, each lies in [0, total_pages), there are at most
\* ceil(2 * MAX_TRACKS / page_size) of them, each is requested with start
\* offset page * page_size and size page_size, and no position of the
\* playlist is twice in the raw list.
C28_PagesDistinctInRange ==
    (call.pc \in {"page", "retry", "done"} /\ ~call.full) =>
        LET fetched == Fetched(call.requests)
            total_pages == (call.total_size + page_size - 1) \div page_size
        IN
        /\ \A m, n \in 1..Len(fetched) :
              m # n => fetched[m].page # fetched[n].page
        /\ \A m, n \in 1..Len(call.pages) :
              m # n => call.pages[m] # call.pages[n]
        /\ \A r \in 1..Len(call.requests) :
              /\ call.requests[r].page \in 0..(total_pages - 1)
              /\ call.requests[r].start = call.requests[r].page * page_size
              /\ call.requests[r].size = page_size
              /\ \E n \in 1..Len(call.pages) :
                    call.pages[n] = call.requests[r].page
        /\ Len(fetched) * page_size <= 2 * MAX_TRACKS + page_size - 1
        /\ Len(call.pages) * page_size <= 2 * MAX_TRACKS + page_size - 1
        /\ \A m, n \in 1..Len(call.all_tracks) :
              m # n => call.all_tracks[m] # call.all_tracks[n]
        /\ \A m \in 1..Len(call.all_tracks) :
              \E n \in 1..Len(fetched) :
                  call.all_tracks[m] \in (fetched[n].start + 1)..
                                          (fetched[n].start + page_size)

\* a page was fetched at the second attempt, another at the first, and
\* the raw list holds the tracks of both
C28_Witness ==
    /\ call.pc = "done"
    /\ ~call.full
    /\ Len(call.requests) = 3
    /\ Len(Fetched(call.requests)) = 2
    /\ call.requests[1].page = call.requests[2].page
    /\ Len(call.all_tracks) = 2 * page_size

\* C30: the delays between consecutive attempts are 1s, 2s, 4s, ...: the
\* delay after failed attempt n is 2^(n-1) seconds, and a delay is taken
\* only when another attempt follows, none after the final attempt.
C30_DelaysDouble ==
    /\ \A n \in 1..Len(call.sleeps) :
          /\ call.sleeps[n] = 2 ^ (n - 1)
          /\ n <= Len(call.calls)
          /\ call.calls[n].type \in {"SSLError", "ConnectionError", "Timeout"}
          /\ n < call.max_retries
    /\ call.pc = "try" => Len(call.sleeps) = Len(call.calls)
    /\ call.pc \in {"sleep", "returned", "raised"} =>
          Len(call.sleeps) = Len(call.calls) - 1

\* four attempts failed and three delays were taken
C30_Witness ==
    /\ call.pc = "raised"
    /\ call.max_retries = 4
    /\ Len(call.calls) = 4
    /\ call.sleeps = <<1, 2, 4>>

\* the tracks t1..t(n-1) of the stored queue
AfterFirst(tracks) == SubSeq(tracks, 2, Len(tracks))

\* C31, at every moment: the tracks the device was told to enqueue are the
\* first of t1..t(n-1), each once and in queue order.
C31_EnqueuedInOrder ==
    (call.phase # "idle" /\ HasTracks(store)) =>
        /\ Len(call.enqueued) <= Len(store.tracks) - 1
        /\ \A i \in 1..Len(call.enqueued) :
              call.enqueued[i] = AfterFirst(store.tracks)[i]

\* C31, at the end: PlaybackNearlyFinished was answered without a
\* directive, all of t1..t(n-1) were enqueued and current_index is n-1.
C31_PlayedThrough ==
    /\ call.phase = "ended"
    /\ HasTracks(store) =>
          /\ call.enqueued = AfterFirst(store.tracks)
          /\ store.current_index = Len(store.tracks) - 1

\* C31: from a freshly saved queue of n tracks at index 0, with a device
\* that plays every track it is told to enqueue and events handled one at
\* a time, each of t1..t(n-1) is enqueued exactly once and in queue order,
\* current_index eventually equals n-1, and PlaybackNearlyFinished of
\* t(n-1) emits no directive.
C31_DevicePlaysQueueThrough == []C31_EnqueuedInOrder /\ <>C31_PlayedThrough

\* C32: after a play request that emits a play directive, the token of the
\* directive is the key of the stored tracks[0] and current_index is 0,
\* also when tracks were dropped in serialization or the write failed.
C32_DirectiveIsStoredFirst ==
    (call.pc = "played" /\ resp.directive # NoDirective) =>
        /\ HasTracks(store)
        /\ store.current_index = 0
        /\ store.tracks[1] = resp.directive.token

\* C33: the write of ShuffleOff changes only the shuffle flag, to false:
\* whatever a concurrent update_queue_index or play request wrote since
\* ShuffleOff read the record, the tracks and the current_index the store
\* held just before the write are those it holds after it.
C33_ShuffleOffOnlyFlag ==
    [][\A p \in Invocations :
          (/\ inv[p].pc = "put"
           /\ ~inv[p].item.shuffle
           /\ inv'[p] = Idle
           /\ store # NoQueue) =>
              /\ store'.tracks = store.tracks
              /\ store'.current_index = store.current_index
              /\ store'.shuffle = FALSE]_vars

C35_Case ==
    /\ resp.handler = "PlaybackNearlyFinished"
    /\ ReadQueue
    /\ ~InQueue(resp.queue_data.tracks, resp.token)

\* C35 as stated: PlaybackNearlyFinished with a token that matches no
\* track writes nothing and works from the stored index s: it emits the
\* enqueue directive for tracks[s+1] when s+1 < len(tracks), and nothing
\* otherwise.
C35_FallsBackToStoredIndex ==
    C35_Case =>
        LET s == resp.queue_data.current_index IN
        /\ resp.updates = <<>>
        /\ ~resp.put
        /\ store = resp.queue_data
        /\ resp.directive =
               IF s + 1 < Len(resp.queue_data.tracks)
               THEN Enqueue(resp.queue_data.tracks[s + 2], resp.token)
               ELSE NoDirective

\* C35: the same, the directive being emitted when the media server
\* answers the lookup of tracks[s+1], and nothing when it does not.
C35_FallsBackToStoredIndexWhenLoaded ==
    C35_Case =>
        LET s == resp.queue_data.current_index IN
        /\ resp.updates = <<>>
        /\ ~resp.put
        /\ store = resp.queue_data
        /\ resp.directive =
               IF s + 1 < Len(resp.queue_data.tracks) /\ resp.loaded
               THEN Enqueue(resp.queue_data.tracks[s + 2], resp.token)
               ELSE NoDirective

\* the token is unknown, the stored index is past the first track and the
\* track after it was enqueued
C35_Witness ==
    /\ C35_Case
    /\ resp.queue_data.current_index > 0
    /\ resp.directive # NoDirective

(* C36: two Next commands with no PlaybackStarted handled between them emit
   replace directives for the same track, the one after the index stored at
   the first command: the second command does not go one track further. *)
C36_Case ==
    /\ call.pc = "skipped twice"
    /\ call.first # NoDirective
    /\ resp.loaded

C36_SameTrack ==
    /\ resp.directive = call.first
    /\ resp.directive
          = Replace(call.read.tracks[call.read.current_index + 2])

C36_SecondNextSameTrack == (C36_Case /\ ~call.started) => C36_SameTrack

(* C36, with the events that write the index: two Next commands with no
   store write handled between them emit replace directives for the same
   track when that track loads both times, and neither command writes. *)
C36_SecondNextSameTrackNoWrite ==
    (C36_Case /\ ~call.wrote)
        => /\ C36_SameTrack
           /\ resp.updates = <<>>
           /\ ~resp.put

C36_Witness ==
    /\ C36_Case
    /\ ~call.wrote
    /\ call.between > 0
    /\ call.read.current_index + 2 < Len(call.read.tracks)

(* C37: repeated SERVICE_UNAVAILABLE failures on a queue of n tracks that
   nothing else changes each advance current_index by exactly one and emit at
   most one directive; at current_index = n-1 a failure emits nothing and
   changes nothing, so at most n-1-current_index recoveries occur. *)
C37_Step ==
    LET n == Len(store.tracks)
        c == store.current_index IN
    call'.failures = call.failures + 1 =>
        IF c = n - 1
        THEN /\ store' = store
             /\ resp'.updates = <<>>
             /\ resp'.directive = NoDirective
             /\ call'.recoveries = call.recoveries
        ELSE /\ store' = [store EXCEPT !.current_index = c + 1]
             /\ resp'.updates = <<c + 1>>
             /\ resp'.directive \in {NoDirective, Replace(store.tracks[c + 2])}
             /\ call'.directives - call.directives \in {0, 1}
             /\ call'.recoveries = call.recoveries + 1

C37_Bounded ==
    /\ call.recoveries <= Len(store.tracks) - 1 - call.start
    /\ call.directives <= call.recoveries
    /\ store.current_index = call.start + call.recoveries
    /\ store.current_index <= Len(store.tracks) - 1

C37_RecoveryTerminates == [][C37_Step]_vars /\ []C37_Bounded

C37_Witness ==
    /\ Len(store.tracks) = MaxLen
    /\ call.start = 0
    /\ call.recoveries = MaxLen - 1
    /\ call.failures > call.recoveries
    /\ call.directives > 0

(* C38: PlaybackFailed (SERVICE_UNAVAILABLE) writes the advanced index before
   it loads the next track: when that track cannot be loaded the store still
   ends at current_index + 1 and the response carries no directive, so the
   stored position is a track this invocation never sent to the device. *)
C38_Case ==
    /\ C9_Case
    /\ ~resp.loaded
    /\ resp.queue_data.current_index + 1 < Len(resp.queue_data.tracks)

C38_FailedLoadStillAdvances ==
    C38_Case =>
        /\ store.current_index = resp.queue_data.current_index + 1
        /\ store.tracks = resp.queue_data.tracks
        /\ resp.updates = <<store.current_index>>
        /\ resp.directive = NoDirective

C38_Witness ==
    /\ C38_Case
    /\ store.current_index = 1
    /\ store.tracks[1] # store.tracks[2]

(* C39: ShuffleOn on a record whose current_index is not a valid index of
   its tracks (current_index >= len(tracks)) ends with the error response and
   performs no store write: tracks, current_index and shuffle are unchanged. *)
C39_Case ==
    /\ resp.handler = "ShuffleOn"
    /\ HasTracks(resp.queue_data)
    /\ resp.queue_data.current_index >= Len(resp.queue_data.tracks)

C39_Handled ==
    /\ resp'.handler = "ShuffleOn"
    /\ resp' # resp
    /\ HasTracks(store)
    /\ store.current_index >= Len(store.tracks)

C39_ShuffleOnInvalidIndexNoWrite ==
    [][C39_Handled => /\ store' = store
                      /\ resp'.queue_data = store
                      /\ resp'.speech = "error"
                      /\ ~resp'.put
                      /\ resp'.updates = <<>>]_vars

C39_Witness ==
    /\ C39_Case
    /\ resp.speech = "error"
    /\ store = resp.queue_data

(* C40: every value a handler passes to update_queue_index is a valid index
   (0 <= i < len) of the tracks list that the same invocation read:
   PlaybackStarted and PlaybackNearlyFinished pass a position at which a
   token was found, PlaybackFailed passes current_index + 1 only when it is
   below len(tracks).  Under any interleaving of the invocations. *)
C40_ValidFor(queue_data, index) ==
    /\ HasTracks(queue_data)
    /\ 0 <= index
    /\ index < Len(queue_data.tracks)
    /\ \/ index = queue_data.current_index + 1
       \/ /\ index # queue_data.current_index
          /\ IsFirstPosition(queue_data.tracks, queue_data.tracks[index + 1],
                             index)

C40_UpdatesAreValidIndexes ==
    [][\A p \in Invocations :
          (inv[p].pc = "idle" /\ inv'[p].pc = "update") =>
              C40_ValidFor(store, inv'[p].index)]_vars

\* an update is about to be written to a record shorter than the one its
\* invocation read
C40_Witness ==
    \E p \in Invocations :
        /\ inv[p].pc = "update"
        /\ HasTracks(store)
        /\ inv[p].index >= Len(store.tracks)
====
